---- MODULE Spec2Model ----
(***************************************************************************)
(* Synchronization engine of the trip planner backend: the Locations tab   *)
(* of an owner's spreadsheet is read, enriched through the place lookup    *)
(* under an item cap and a time budget, written back and published to the  *)
(* cached_locations table; the Itinerary tab is rewritten in full and      *)
(* mirrored into cached_itineraries.                                       *)
(***************************************************************************)
EXTENDS Integers, Sequences, FiniteSets, TLC

VARIABLES
    profiles,           \* table profiles: owner -> [spreadsheet_id, google_refresh_token]
    locSheet,           \* owner -> values of the Locations tab (rows of cells, header first)
    itinTab,            \* owner -> [exists, rows] of the Itinerary tab
    cachedLocations,    \* table cached_locations: owner -> [present, data]
    cachedItineraries,  \* table cached_itineraries: owner -> [present, data]
    provider,           \* place lookup: place name -> set of answers a call may give
    env,                \* "any": collaborator calls may fail, lookups may be slow; "calm": not
    tripCollaborators,  \* table trip_collaborators: owner -> emails stored for the owner
    proc                \* invocation slot -> locals of the running handler (pc, ...)

vars ==
    <<profiles, locSheet, itinTab, cachedLocations, cachedItineraries, provider, env,
      tripCollaborators, proc>>

----------------------------------------------------------------------------
(* Bounds of the checked instances *)

MaxRows == 4
MaxItems == 2
MaxRepeatRows == 4

\* items carried by a second, concurrent itinerary rewrite
MaxRivalItems == 1

\* data rows of the sheets the Promise.all version of the sync is run on
MaxFanOutRows == 2

\* data rows of the sheets a single-record update is run on
MaxUpdateRows == 2

\* data rows of the sheets two concurrent syncs of one owner are run on
MaxRaceRows == 1

\* data rows of the sheets with other header rows
MaxHeaderRows == 2

----------------------------------------------------------------------------
(* JavaScript values *)

UNDEF == "<undefined>"

Falsy(s) == s \in {"", UNDEF}

OrElse(x, d) == IF Falsy(x) THEN d ELSE x

NumericCells == {"0", "34", "35", "135", "139"}

\* parseFloat(cell) || 0
parseFloatOr0(s) == IF s \in NumericCells THEN CHOOSE n \in 0..200 : ToString(n) = s ELSE 0

\* what a number written with USER_ENTERED reads back as
NumToCell(n) == ToString(n)

HttpCells == {"http://maps/u", "http://img/u.jpg", "https://maps.google.com/?cid=G"}

GooglePhotoUrls == {"https://maps.googleapis.com/maps/api/place/photo?photo_reference=refU",
                    "https://maps.googleapis.com/maps/api/place/photo?photo_reference=refG"}

startsWithHttp(s) == s \in HttpCells \cup GooglePhotoUrls

includesMapsGoogleapis(s) == s \in GooglePhotoUrls

getPhotoUrl(photoRef) ==
    IF Falsy(photoRef) THEN ""
    ELSE IF photoRef = "refU"
         THEN "https://maps.googleapis.com/maps/api/place/photo?photo_reference=refU"
         ELSE "https://maps.googleapis.com/maps/api/place/photo?photo_reference=refG"

----------------------------------------------------------------------------
(* Column role resolver *)

toLowerTrim(h) ==
    CASE h = "Restaurant Name" -> "restaurant name"
      [] h = "City" -> "city"
      [] h = " City " -> "city"
      [] h = "Cuisine Type" -> "cuisine type"
      [] h = "Price (JPY)" -> "price (jpy)"
      [] h = "Best For" -> "best for"
      [] h = "Google Maps" -> "google maps"
      [] h = "Latitude" -> "latitude"
      [] h = "Longitude" -> "longitude"
      [] h = "Photo Reference" -> "photo reference"
      [] h = "Name" -> "name"
      [] OTHER -> h

\* Array.prototype.indexOf: zero-based index of the first match, -1 if none
indexOf(seq, x) ==
    IF \E i \in 1..Len(seq) : seq[i] = x
    THEN (CHOOSE i \in 1..Len(seq) : seq[i] = x /\ \A j \in 1..(i - 1) : seq[j] # x) - 1
    ELSE -1

headerMatch(header) ==
    LET headerRow == [i \in 1..Len(header) |-> toLowerTrim(header[i])]
    IN  [name  |-> indexOf(headerRow, "restaurant name"),
         city  |-> indexOf(headerRow, "city"),
         type  |-> indexOf(headerRow, "cuisine type"),
         price |-> indexOf(headerRow, "price (jpy)"),
         desc  |-> indexOf(headerRow, "best for"),
         url   |-> indexOf(headerRow, "google maps"),
         lat   |-> indexOf(headerRow, "latitude"),
         lng   |-> indexOf(headerRow, "longitude"),
         photo |-> indexOf(headerRow, "photo reference")]

LegacyIndex ==
    [name |-> 0, city |-> 1, type |-> 2, price |-> 3, desc |-> 4,
     url |-> 5, lat |-> 6, lng |-> 7, photo |-> 8]

legacyFallback(m) ==
    [r \in DOMAIN m |-> IF m[r] = -1 THEN LegacyIndex[r] ELSE m[r]]

\* the header row to persist, and the column map after the appended cells
repairHeaders(header, m) ==
    LET h1 == IF m.lat = -1 THEN Append(header, "Latitude") ELSE header
        m1 == IF m.lat = -1 THEN [m EXCEPT !.lat = Len(h1) - 1] ELSE m
        h2 == IF m1.lng = -1 THEN Append(h1, "Longitude") ELSE h1
        m2 == IF m1.lng = -1 THEN [m1 EXCEPT !.lng = Len(h2) - 1] ELSE m1
        h3 == IF m2.photo = -1 THEN Append(h2, "Photo Reference") ELSE h2
        m3 == IF m2.photo = -1 THEN [m2 EXCEPT !.photo = Len(h3) - 1] ELSE m2
    IN  [needed |-> (m.lat = -1 \/ m.lng = -1 \/ m.photo = -1),
         newHeaders |-> h3, colMap |-> m3]

----------------------------------------------------------------------------
(* Row transformer *)

getVal(row, idx) ==
    IF idx >= 0 THEN (IF idx + 1 <= Len(row) THEN row[idx + 1] ELSE UNDEF) ELSE ""

\* ids counted from the spreadsheet's first data row as 1
LocId_oneBased(idx) == <<"loc-", idx + 1>>

LocId(idx) == <<"loc-", idx>>

transformRow(row, idx, colMap) ==
    LET photoRef == getVal(row, colMap.photo)
        photoUrl == IF startsWithHttp(photoRef) THEN photoRef
                    ELSE IF ~Falsy(photoRef) THEN getPhotoUrl(photoRef)
                    ELSE UNDEF
    IN  [id |-> LocId(idx),
         name |-> OrElse(getVal(row, colMap.name), "Unknown"),
         city |-> OrElse(getVal(row, colMap.city), "Japan"),
         type |-> OrElse(getVal(row, colMap.type), "Spot"),
         priceJpy |-> OrElse(getVal(row, colMap.price), "-"),
         priceThb |-> "-",
         description |-> OrElse(getVal(row, colMap.desc), ""),
         googleMapsUrl |-> OrElse(getVal(row, colMap.url), "#"),
         lat |-> parseFloatOr0(getVal(row, colMap.lat)),
         lng |-> parseFloatOr0(getVal(row, colMap.lng)),
         photoUrl |-> photoUrl]

\* rows.slice(1).map((row, idx) => ...): element idx + 1 is the record of data row idx
transformRowsToLocations(rows, colMap) ==
    [k \in 1..(Len(rows) - 1) |-> transformRow(rows[k + 1], k - 1, colMap)]

----------------------------------------------------------------------------
(* Enrichment selector *)

needsFetch(loc, rawRow, colMap) ==
    LET hasPhotoRef == ~Falsy(getVal(rawRow, colMap.photo))
        missingCoords == loc.lat = 0 \/ loc.lng = 0
        missingPhoto == ~hasPhotoRef
        missingType == Falsy(loc.type) \/ loc.type = "Spot"
        missingPrice == Falsy(loc.priceJpy) \/ loc.priceJpy = "-"
        missingDesc == Falsy(loc.description)
        missingUrl == Falsy(loc.googleMapsUrl) \/ loc.googleMapsUrl = "#"
    IN  loc.name # "Unknown" /\
        (missingCoords \/ missingPhoto \/ missingType \/ missingPrice \/ missingDesc \/ missingUrl)

\* zero-based indices i of the records kept by the filter, in row order
selectItems(locations, rows, colMap) ==
    LET idxs == [k \in 1..Len(locations) |-> k - 1]
        Keep(i) == needsFetch(locations[i + 1], rows[i + 2], colMap)
    IN  SelectSeq(idxs, Keep)

\* the older cap of 5 items per request
BATCH_SIZE_five == 5

BATCH_SIZE == 3

TIMEOUT_MS == 6000

----------------------------------------------------------------------------
(* Place lookup collaborator: what fetchPlaceData may answer *)

NoData == [found |-> FALSE]

\* place details found: every enrichable field supplied
FullData ==
    [found |-> TRUE, lat |-> 34, lng |-> 135, photoRef |-> "refG",
     googleMapsUrl |-> "https://maps.google.com/?cid=G", priceLevel |-> "YY",
     type |-> "Restaurant", summary |-> "Famous"]

\* place details failed: the basic fallback of the text search, no photo
BasicData ==
    [found |-> TRUE, lat |-> 34, lng |-> 135, photoRef |-> UNDEF,
     googleMapsUrl |-> UNDEF, priceLevel |-> UNDEF, type |-> UNDEF, summary |-> UNDEF]

Answers == {NoData, FullData, BasicData}

\* wall-clock time one awaited lookup may take, in ms
Durations == {2000, 7000}

PlaceNames == {"Ichiran", "Kinkakuji"}

----------------------------------------------------------------------------
(* Time-budgeted enrichment executor: merge of one lookup answer *)

mergeCoords(loc, data) ==
    IF loc.lat = 0 \/ loc.lng = 0
    THEN [loc EXCEPT !.lat = data.lat, !.lng = data.lng]
    ELSE loc

mergeMeta(loc, data) ==
    [loc EXCEPT
        !.googleMapsUrl = IF (Falsy(@) \/ @ = "#") /\ ~Falsy(data.googleMapsUrl)
                          THEN data.googleMapsUrl ELSE @,
        !.description = IF Falsy(@) /\ ~Falsy(data.summary) THEN data.summary ELSE @,
        !.priceJpy = IF (Falsy(@) \/ @ = "-") /\ ~Falsy(data.priceLevel)
                     THEN data.priceLevel ELSE @,
        !.type = IF (Falsy(@) \/ @ = "Spot") /\ ~Falsy(data.type) THEN data.type ELSE @]

mergePhoto(loc, data) ==
    LET photoRef == OrElse(data.photoRef, "")
    IN  IF ~Falsy(photoRef) /\ (Falsy(loc.photoUrl) \/ includesMapsGoogleapis(loc.photoUrl))
        THEN [loc EXCEPT !.photoUrl = getPhotoUrl(photoRef)]
        ELSE loc

mergePlaceData(loc, data) == mergePhoto(mergeMeta(mergeCoords(loc, data), data), data)

\* an entry addressed as if the tab had no header row
sheetUpdate_noHeaderRow(i, data) ==
    [rowIdx |-> i + 1, lat |-> data.lat, lng |-> data.lng,
     photoRef |-> OrElse(data.photoRef, ""), type |-> data.type,
     price |-> data.priceLevel, desc |-> data.summary, url |-> data.googleMapsUrl]

\* the entry pushed on updates for the record at zero-based index i
sheetUpdate(i, data) ==
    [rowIdx |-> i + 2,
     lat |-> data.lat,
     lng |-> data.lng,
     photoRef |-> OrElse(data.photoRef, ""),
     type |-> data.type,
     price |-> data.priceLevel,
     desc |-> data.summary,
     url |-> data.googleMapsUrl]

----------------------------------------------------------------------------
(* Batch write-back *)

Letters ==
    <<"A", "B", "C", "D", "E", "F", "G", "H", "I", "J", "K", "L", "M",
      "N", "O", "P", "Q", "R", "S", "T", "U", "V", "W", "X", "Y", "Z">>

\* String.fromCharCode(65 + n)
getColLetter(n) == IF n >= 0 /\ n < 26 THEN Letters[n + 1] ELSE "?"

cellChange(col, rowIdx, value) ==
    <<[range |-> <<getColLetter(col), rowIdx>>, value |-> value]>>

\* a write-back of the coordinates alone
changesOf_coordsOnly(u, colMap) ==
    (IF colMap.lat # -1 THEN cellChange(colMap.lat, u.rowIdx, NumToCell(u.lat)) ELSE <<>>)
    \o (IF colMap.lng # -1 THEN cellChange(colMap.lng, u.rowIdx, NumToCell(u.lng)) ELSE <<>>)

changesOf(u, colMap) ==
    (IF colMap.lat # -1 THEN cellChange(colMap.lat, u.rowIdx, NumToCell(u.lat)) ELSE <<>>)
    \o (IF colMap.lng # -1 THEN cellChange(colMap.lng, u.rowIdx, NumToCell(u.lng)) ELSE <<>>)
    \o (IF colMap.photo # -1 /\ ~Falsy(u.photoRef)
        THEN cellChange(colMap.photo, u.rowIdx, u.photoRef) ELSE <<>>)
    \o (IF colMap.type # -1 /\ ~Falsy(u.type)
        THEN cellChange(colMap.type, u.rowIdx, u.type) ELSE <<>>)
    \o (IF colMap.price # -1 /\ ~Falsy(u.price)
        THEN cellChange(colMap.price, u.rowIdx, u.price) ELSE <<>>)
    \o (IF colMap.desc # -1 /\ ~Falsy(u.desc)
        THEN cellChange(colMap.desc, u.rowIdx, u.desc) ELSE <<>>)
    \o (IF colMap.url # -1 /\ ~Falsy(u.url)
        THEN cellChange(colMap.url, u.rowIdx, u.url) ELSE <<>>)

RECURSIVE batchData(_, _)
\* updates.map(...).flat()
batchData(updates, colMap) ==
    IF updates = <<>> THEN <<>>
    ELSE changesOf(Head(updates), colMap) \o batchData(Tail(updates), colMap)

(* Spreadsheet collaborator: effect of value writes on a tab's values *)

columnOfLetter(letter) == (CHOOSE i \in 1..26 : Letters[i] = letter) - 1

Greatest(S) == CHOOSE m \in S : \A x \in S : x <= m

\* values.batchUpdate: every ranged cell takes the value of the last entry that
\* addresses it; rows and cells skipped over are empty
batchUpdateValues(values, data) ==
    LET rowOf(i) == data[i].range[2]
        colOf(i) == columnOfLetter(data[i].range[1])
        hits(r, c) == {i \in DOMAIN data : rowOf(i) = r /\ colOf(i) = c}
        lastRow == Greatest({Len(values)} \cup {rowOf(i) : i \in DOMAIN data})
        width(r) == Greatest({IF r <= Len(values) THEN Len(values[r]) ELSE 0}
                        \cup {colOf(i) + 1 : i \in {j \in DOMAIN data : rowOf(j) = r}})
    IN  [r \in 1..lastRow |->
            [c \in 1..width(r) |->
                IF hits(r, c - 1) # {} THEN data[Greatest(hits(r, c - 1))].value
                ELSE IF r <= Len(values) /\ c <= Len(values[r]) THEN values[r][c]
                ELSE ""]]

----------------------------------------------------------------------------
(* Owners, profiles, invocation slots *)

Owners == {"ownerA", "ownerB"}

Procs == {1, 2}

LinkedProfile(o) ==
    [exists |-> TRUE, spreadsheet_id |-> <<"sheet", o>>, google_refresh_token |-> <<"token", o>>]

UnlinkedProfile(o) ==
    [exists |-> TRUE, spreadsheet_id |-> <<>>, google_refresh_token |-> <<"token", o>>]

\* a check that does not look at the refresh token
profileIncomplete_noToken(pr) == ~pr.exists \/ pr.spreadsheet_id = <<>>

\* error || !profile || !profile.spreadsheet_id || !profile.google_refresh_token
profileIncomplete(pr) ==
    ~pr.exists \/ pr.spreadsheet_id = <<>> \/ pr.google_refresh_token = <<>>

Idle == [op |-> "idle", pc |-> "idle"]

Pending == [state |-> "pending"]

Returned(v) == [state |-> "ok", value |-> v]

Thrown(msg) == [state |-> "error", message |-> msg]

\* whether an awaited collaborator call succeeds
CallOutcomes == IF env = "calm" THEN {TRUE} ELSE BOOLEAN

(* Cache store *)

NoSnapshot == [present |-> FALSE, data |-> <<>>]

\* an insert that keeps the row an owner already has
upsert_keepExisting(table, o, data) ==
    IF table[o].present THEN table ELSE [table EXCEPT ![o] = [present |-> TRUE, data |-> data]]

\* an upsert that would add to the owner's stored list
upsert_append(table, o, data) == [table EXCEPT ![o] = [present |-> TRUE, data |-> @.data \o data]]

\* upsert(..., { onConflict: "owner_id" }): the owner's row is replaced
upsert(table, o, data) == [table EXCEPT ![o] = [present |-> TRUE, data |-> data]]

----------------------------------------------------------------------------
(* syncSheetToDb *)

\* locals of one invocation; before, pre, selected, lookups, batches, prev and
\* everLooked are history kept for the properties
syncLocals(o) ==
    [op |-> "sync", pc |-> "read", owner |-> o,
     before |-> <<>>, colMap |-> LegacyIndex, pre |-> <<>>, locations |-> <<>>,
     selected |-> <<>>, itemsToFetch |-> <<>>, k |-> 0,
     updates |-> <<>>, updatedCount |-> 0, remainingCount |-> 0,
     elapsed |-> 0, lookups |-> <<>>, capped |-> FALSE, timedOut |-> FALSE,
     batches |-> <<>>, result |-> Pending,
     prev |-> [known |-> FALSE, data |-> <<>>, selected |-> 0], everLooked |-> {}]

\* the profile check that opens the handler
startSync(o) ==
    IF profileIncomplete(profiles[o])
    THEN [syncLocals(o) EXCEPT !.pc = "done",
             !.result = Thrown("User profile incomplete or missing sheet.")]
    ELSE syncLocals(o)

\* a write-back issued after every loop
afterLoop_alwaysWrite(l) == [l EXCEPT !.pc = "write"]

\* a loop exit that goes to the cache upsert with the updates not written
afterLoop_skipWrite(l) == [l EXCEPT !.pc = "upsert"]

\* after the loop: the batch write is issued only when there are updates
afterLoop(l) ==
    [l EXCEPT !.pc = IF Len(l.updates) > 0 THEN "write" ELSE "upsert"]

\* a timeout branch that breaks without adjusting remainingCount
haltOnTimeout_noAdjust(l) == afterLoop([l EXCEPT !.timedOut = TRUE])

\* the timeout branch: remainingCount += itemsToFetch.length - updatedCount; break
haltOnTimeout(l) ==
    afterLoop([l EXCEPT !.remainingCount = @ + (Len(l.itemsToFetch) - l.updatedCount),
                        !.timedOut = TRUE])

\* a loop head that never looks at the clock
loopHead_noClock(l) ==
    IF l.k >= Len(l.itemsToFetch) THEN afterLoop(l) ELSE [l EXCEPT !.pc = "await"]

\* top of the for loop with k items iterated: leave, halt on the time budget,
\* or call the lookup for the next item
loopHead(l) ==
    IF l.k >= Len(l.itemsToFetch) THEN afterLoop(l)
    ELSE IF l.elapsed > TIMEOUT_MS THEN haltOnTimeout(l)
    ELSE [l EXCEPT !.pc = "await"]

\* itemsToFetch.slice(0, BATCH_SIZE) when longer than BATCH_SIZE
sliceBatch(items) ==
    IF Len(items) > BATCH_SIZE THEN SubSeq(items, 1, BATCH_SIZE) ELSE items

\* from the rows read to the first await of the executor
planSync(l, rows) ==
    LET rep == repairHeaders(rows[1], legacyFallback(headerMatch(rows[1])))
        colMap == rep.colMap
        locations == transformRowsToLocations(rows, colMap)
        items == selectItems(locations, rows, colMap)
    IN  loopHead([l EXCEPT
            !.before = rows, !.colMap = colMap, !.pre = locations,
            !.locations = locations, !.selected = items,
            !.itemsToFetch = sliceBatch(items),
            !.remainingCount = IF Len(items) > BATCH_SIZE
                               THEN Len(items) - BATCH_SIZE ELSE 0,
            !.capped = Len(items) > BATCH_SIZE])

\* a loop body that leaves the loop when the lookup answered nothing
applyLookup_abortOnMiss(l, data, dur) ==
    LET i == l.itemsToFetch[l.k + 1]
        seen == [l EXCEPT !.k = @ + 1, !.elapsed = @ + dur,
                          !.lookups = Append(@, [i |-> i, data |-> data])]
    IN  IF data.found
        THEN [seen EXCEPT
                 !.locations[i + 1] = mergePlaceData(@, data),
                 !.updates = Append(@, sheetUpdate(i, data)),
                 !.updatedCount = @ + 1,
                 !.everLooked = @ \cup {i}]
        ELSE [seen EXCEPT !.k = Len(l.itemsToFetch)]

\* the body of one loop iteration after fetchPlaceData answered data
applyLookup(l, data, dur) ==
    LET i == l.itemsToFetch[l.k + 1]
        seen == [l EXCEPT !.k = @ + 1, !.elapsed = @ + dur,
                          !.lookups = Append(@, [i |-> i, data |-> data])]
    IN  IF data.found
        THEN [seen EXCEPT
                 !.locations[i + 1] = mergePlaceData(@, data),
                 !.updates = Append(@, sheetUpdate(i, data)),
                 !.updatedCount = @ + 1,
                 !.everLooked = @ \cup {i}]
        ELSE seen

\* the value the handler returns after the cache upsert
syncResult(l) ==
    [locations |-> l.locations, remainingCount |-> l.remainingCount,
     updatedCount |-> l.updatedCount]

SyncStart(p, o) ==
    /\ proc[p].pc = "idle"
    /\ proc' = [proc EXCEPT ![p] = startSync(o)]
    /\ UNCHANGED <<profiles, locSheet, itinTab, cachedLocations, cachedItineraries, provider, env,
                 tripCollaborators>>

SyncRead(p) ==
    /\ proc[p].op = "sync" /\ proc[p].pc = "read"
    /\ LET l == proc[p]
           rows == locSheet[l.owner]
           rep == repairHeaders(rows[1], legacyFallback(headerMatch(rows[1])))
       IN  \E readOk \in CallOutcomes :
             IF ~readOk
             THEN /\ proc' = [proc EXCEPT ![p] =
                        [l EXCEPT !.pc = "done", !.result = Thrown("getValues failed")]]
                  /\ UNCHANGED locSheet
             ELSE IF Len(rows) = 0
             THEN /\ proc' = [proc EXCEPT ![p] =
                        [l EXCEPT !.pc = "done",
                            !.result = Returned([locations |-> <<>>, remainingCount |-> 0])]]
                  /\ UNCHANGED locSheet
             ELSE /\ proc' = [proc EXCEPT ![p] = planSync(l, rows)]
                  /\ locSheet' = IF rep.needed
                                 THEN [locSheet EXCEPT ![l.owner][1] = rep.newHeaders]
                                 ELSE locSheet
    /\ UNCHANGED <<profiles, itinTab, cachedLocations, cachedItineraries, provider, env,
                 tripCollaborators>>

SyncLookupReturn(p) ==
    /\ proc[p].op = "sync" /\ proc[p].pc = "await"
    /\ LET l == proc[p]
           loc == l.locations[l.itemsToFetch[l.k + 1] + 1]
       IN  \E data \in provider[loc.name] :
           \E dur \in (IF env = "calm" THEN {2000} ELSE Durations) :
             proc' = [proc EXCEPT ![p] = loopHead(applyLookup(l, data, dur))]
    /\ UNCHANGED <<profiles, locSheet, itinTab, cachedLocations, cachedItineraries, provider, env,
                 tripCollaborators>>

SyncWrite(p) ==
    /\ proc[p].op = "sync" /\ proc[p].pc = "write"
    /\ LET l == proc[p]
           data == batchData(l.updates, l.colMap)
       IN  \E writeOk \in CallOutcomes :
             IF writeOk
             THEN /\ locSheet' = [locSheet EXCEPT ![l.owner] = batchUpdateValues(@, data)]
                  /\ proc' = [proc EXCEPT ![p] =
                        [l EXCEPT !.pc = "upsert", !.batches = Append(@, data)]]
             ELSE /\ proc' = [proc EXCEPT ![p] =
                        [l EXCEPT !.pc = "done", !.result = Thrown("batchUpdate failed")]]
                  /\ UNCHANGED locSheet
    /\ UNCHANGED <<profiles, itinTab, cachedLocations, cachedItineraries, provider, env,
                 tripCollaborators>>

SyncUpsert(p) ==
    /\ proc[p].op = "sync" /\ proc[p].pc = "upsert"
    /\ LET l == proc[p]
       IN  \E upsertOk \in CallOutcomes :
             IF upsertOk
             THEN /\ cachedLocations' = upsert(cachedLocations, l.owner, l.locations)
                  /\ proc' = [proc EXCEPT ![p] =
                        [l EXCEPT !.pc = "done", !.result = Returned(syncResult(l))]]
             ELSE /\ proc' = [proc EXCEPT ![p] =
                        [l EXCEPT !.pc = "done", !.result = Thrown("upsertError")]]
                  /\ UNCHANGED cachedLocations
    /\ UNCHANGED <<profiles, locSheet, itinTab, cachedItineraries, provider, env,
                 tripCollaborators>>

\* the caller invokes the sync again after an invocation has returned
SyncAgain(p) ==
    /\ proc[p].op = "sync" /\ proc[p].pc = "done"
    /\ LET l == proc[p]
       IN  proc' = [proc EXCEPT ![p] =
               [startSync(l.owner) EXCEPT
                   !.prev = IF l.result.state = "ok"
                            THEN [known |-> TRUE, data |-> cachedLocations[l.owner].data,
                                  selected |-> Len(l.selected)]
                            ELSE l.prev,
                   !.everLooked = l.everLooked]]
    /\ UNCHANGED <<profiles, locSheet, itinTab, cachedLocations, cachedItineraries, provider, env,
                 tripCollaborators>>

----------------------------------------------------------------------------
(* Checked instances of the Locations tab *)

LegacyHeader ==
    <<"Restaurant Name", "City", "Cuisine Type", "Price (JPY)", "Best For",
      "Google Maps", "Latitude", "Longitude", "Photo Reference">>

\* every cell filled in by the user
RowComplete == <<"Ichiran", "Kyoto", "Ramen", "1000", "Lunch", "http://maps/u", "35", "139", "refU">>

\* no coordinates and no photo reference yet
RowNoGeo == <<"Ichiran", "Kyoto", "Ramen", "1000", "Lunch", "http://maps/u">>

\* latitude entered, longitude not
RowHalfGeo == <<"Ichiran", "Kyoto", "Ramen", "1000", "Lunch", "http://maps/u", "35", "", "refU">>

\* only a name
RowBare == <<"Kinkakuji">>

RowTemplates == {RowComplete, RowNoGeo, RowHalfGeo, RowBare}

SheetsUpTo(n, templates) ==
    {<<>>} \cup
    {<<LegacyHeader>> \o body : body \in UNION {[1..k -> templates] : k \in 0..n}}

StaleLocations ==
    <<[id |-> LocId(0), name |-> "Old Place", city |-> "Japan", type |-> "Spot",
       priceJpy |-> "-", priceThb |-> "-", description |-> "", googleMapsUrl |-> "#",
       lat |-> 0, lng |-> 0, photoUrl |-> UNDEF],
      [id |-> LocId(7), name |-> "Older Place", city |-> "Japan", type |-> "Spot",
       priceJpy |-> "-", priceThb |-> "-", description |-> "", googleMapsUrl |-> "#",
       lat |-> 0, lng |-> 0, photoUrl |-> UNDEF]>>

NoTab == [exists |-> FALSE, rows |-> <<>>]

InitRest ==
    /\ itinTab = [o \in Owners |-> NoTab]
    /\ cachedItineraries = [o \in Owners |-> NoSnapshot]
    /\ proc = [p \in Procs |-> Idle]
    /\ tripCollaborators = [o \in Owners |-> {}]

\* one sync invocation for ownerA on any sheet of up to MaxRows data rows, with
\* an older snapshot in the cache
Init ==
    /\ \E pr \in {LinkedProfile("ownerA"), UnlinkedProfile("ownerA")} :
         profiles = [o \in Owners |-> IF o = "ownerA" THEN pr ELSE LinkedProfile(o)]
    /\ \E s \in SheetsUpTo(MaxRows, RowTemplates) :
         locSheet = [o \in Owners |-> IF o = "ownerA" THEN s ELSE <<>>]
    /\ cachedLocations = upsert([o \in Owners |-> NoSnapshot], "ownerA", StaleLocations)
    /\ provider = [n \in PlaceNames |-> Answers]
    /\ env = "any"
    /\ InitRest

Next ==
    \E p \in {1} :
        \/ SyncStart(p, "ownerA")
        \/ SyncRead(p)
        \/ SyncLookupReturn(p)
        \/ SyncWrite(p)
        \/ SyncUpsert(p)

Spec == Init /\ [][Next]_vars

----------------------------------------------------------------------------
(* Properties of syncSheetToDb, one invocation (Spec) *)

SyncDone(p) == proc[p].op = "sync" /\ proc[p].pc = "done"

SyncOk(p) == SyncDone(p) /\ proc[p].result.state = "ok"

\* a count of the returned object; a count the object does not carry reads as 0
Reported(v, f) == IF f \in DOMAIN v THEN v[f] ELSE 0

\* the cell of spreadsheet row r (1-based) in zero-based column c, as read
CellAt(values, r, c) == IF r <= Len(values) THEN getVal(values[r], c) ELSE UNDEF

EnrichedRoles == {"type", "price", "desc", "url", "lat", "lng", "photo"}

\* C1: for every successful invocation, updatedCount + remainingCount equals the
\* number of records selected for enrichment in that invocation.
C1_BudgetConservation ==
    \A p \in Procs : SyncOk(p) =>
        Reported(proc[p].result.value, "updatedCount")
          + Reported(proc[p].result.value, "remainingCount") = Len(proc[p].selected)

\* C2: every cell of an enrichable column that held a non-empty value when the
\* sync read the sheet holds the same value after the sync.
C2_UserCellsKept ==
    \A p \in Procs : SyncOk(p) =>
        LET l == proc[p]
        IN  \A r \in 2..Len(l.before) : \A f \in EnrichedRoles :
              ~Falsy(CellAt(l.before, r, l.colMap[f])) =>
                  CellAt(locSheet[l.owner], r, l.colMap[f]) = CellAt(l.before, r, l.colMap[f])

MergedFields == {"type", "priceJpy", "description", "googleMapsUrl", "lat", "lng"}

NonDefault(loc, f) ==
    CASE f = "type" -> ~Falsy(loc.type) /\ loc.type # "Spot"
      [] f = "priceJpy" -> ~Falsy(loc.priceJpy) /\ loc.priceJpy # "-"
      [] f = "description" -> ~Falsy(loc.description)
      [] f = "googleMapsUrl" -> ~Falsy(loc.googleMapsUrl) /\ loc.googleMapsUrl # "#"
      [] f = "lat" -> loc.lat # 0
      [] f = "lng" -> loc.lng # 0

\* C3: each field (type, price, description, url, lat, lng, taken one by one)
\* that was non-default before enrichment has the same value in the records
\* returned and in the records published to the cache.
C3_FillOnlyEachField ==
    \A p \in Procs : SyncOk(p) =>
        LET l == proc[p]
        IN  \A k \in 1..Len(l.pre) : \A f \in MergedFields :
              NonDefault(l.pre[k], f) =>
                  /\ l.result.value.locations[k][f] = l.pre[k][f]
                  /\ cachedLocations[l.owner].data[k][f] = l.pre[k][f]

\* C6: after every successful sync the cached snapshot holds exactly one record
\* per data row read, in row order, whatever the number of rows read.
C6_FullReplace ==
    \A p \in Procs : SyncOk(p) =>
        LET l == proc[p]
            d == cachedLocations[l.owner].data
            n == IF Len(l.before) = 0 THEN 0 ELSE Len(l.before) - 1
        IN  /\ cachedLocations[l.owner].present
            /\ Len(d) = n
            /\ \A k \in 1..n :
                 /\ d[k].id = LocId(k - 1)
                 /\ d[k].name = OrElse(getVal(l.before[k + 1], l.colMap.name), "Unknown")

AllFound(l) == \A j \in 1..Len(l.lookups) : l.lookups[j].data.found

----------------------------------------------------------------------------
(* updateItineraryInSheet *)

ItineraryHeader == <<"Day", "Location ID", "Order", "Notes">>

\* a.day.localeCompare(b.day) on the day labels in use: "Day 10" collates
\* before "Day 2"
DayRank == [d \in {"Day 10", "Day 2"} |-> IF d = "Day 10" THEN 1 ELSE 2]

localeCompare(a, b) ==
    IF DayRank[a] < DayRank[b] THEN -1 ELSE IF DayRank[a] > DayRank[b] THEN 1 ELSE 0

\* the comparator handed to sort
compareItems(a, b) == IF a.day # b.day THEN localeCompare(a.day, b.day) ELSE a.order - b.order

RECURSIVE insertItem(_, _)
\* x goes behind every item that does not compare greater (the sort is stable)
insertItem(sorted, x) ==
    IF sorted = <<>> THEN <<x>>
    ELSE IF compareItems(Head(sorted), x) <= 0
         THEN <<Head(sorted)>> \o insertItem(Tail(sorted), x)
         ELSE <<x>> \o sorted

RECURSIVE sortItems(_)
\* [...itineraryItems].sort(comparator)
sortItems(items) ==
    IF items = <<>> THEN <<>>
    ELSE insertItem(sortItems(SubSeq(items, 1, Len(items) - 1)), items[Len(items)])

\* sortedItems.map(item => [item.day, item.locationId, item.order, item.note])
itemRows(sortedItems) ==
    [k \in 1..Len(sortedItems) |->
        <<sortedItems[k].day, sortedItems[k].locationId,
          NumToCell(sortedItems[k].order), sortedItems[k].note>>]

\* values.update on the rows from firstRow on; rows skipped over stay empty
updateRange(values, firstRow, newRows) ==
    LET last == firstRow + Len(newRows) - 1
        n == IF Len(values) > last THEN Len(values) ELSE last
    IN  [r \in 1..n |->
            IF r >= firstRow /\ r <= last THEN newRows[r - firstRow + 1]
            ELSE IF r <= Len(values) THEN values[r] ELSE <<>>]

\* values.clear on "Itinerary!A2:D": everything below the first row goes
clearValues(values) == IF Len(values) >= 1 THEN <<values[1]>> ELSE <<>>

\* locals of one invocation; path and disturbed are history kept for the
\* properties: the branch taken at the tab check, and whether another
\* invocation has touched the owner's tab or cache since this one passed it
itinLocals(o, itineraryItems) ==
    [op |-> "updItin", pc |-> "meta", owner |-> o,
     itineraryItems |-> itineraryItems,
     sortedItems |-> sortItems(itineraryItems),
     rows |-> itemRows(sortItems(itineraryItems)),
     path |-> "none", disturbed |-> FALSE, result |-> Pending]

startItin(o, itineraryItems) ==
    IF profileIncomplete(profiles[o])
    THEN [itinLocals(o, itineraryItems) EXCEPT !.pc = "done",
             !.result = Thrown("No profile or missing sheet/token")]
    ELSE itinLocals(o, itineraryItems)

\* proc after invocation p moved to locals l and touched the tab or the cache
\* of its owner: the other invocations past their tab check are marked
touching(p, l) ==
    [q \in Procs |->
        IF q = p THEN l
        ELSE IF proc[q].op = "updItin" /\ proc[q].owner = l.owner
                /\ proc[q].pc \in {"write", "upsert", "done"}
             THEN [proc[q] EXCEPT !.disturbed = TRUE]
             ELSE proc[q]]

ItinStart(p, o, itineraryItems) ==
    /\ proc[p].pc = "idle"
    /\ proc' = [proc EXCEPT ![p] = startItin(o, itineraryItems)]
    /\ UNCHANGED <<profiles, locSheet, itinTab, cachedLocations, cachedItineraries, provider, env,
                 tripCollaborators>>

\* getMetadata and the search for the sheet titled "Itinerary"
ItinMeta(p) ==
    /\ proc[p].op = "updItin" /\ proc[p].pc = "meta"
    /\ LET l == proc[p]
       IN  \E metaOk \in CallOutcomes :
             proc' = [proc EXCEPT ![p] =
                 IF ~metaOk
                 THEN [l EXCEPT !.pc = "done", !.result = Thrown("getMetadata failed")]
                 ELSE IF itinTab[l.owner].exists
                      THEN [l EXCEPT !.pc = "clear", !.path = "present"]
                      ELSE [l EXCEPT !.pc = "addSheet"]]
    /\ UNCHANGED <<profiles, locSheet, itinTab, cachedLocations, cachedItineraries, provider, env,
                 tripCollaborators>>

\* addSheet inside the try: a tab created meanwhile makes it fail with
\* "already exists", which the catch swallows; any other failure is rethrown
ItinAddSheet(p) ==
    /\ proc[p].op = "updItin" /\ proc[p].pc = "addSheet"
    /\ LET l == proc[p]
       IN  IF itinTab[l.owner].exists
           THEN /\ proc' = [proc EXCEPT ![p] = [l EXCEPT !.pc = "write", !.path = "raced"]]
                /\ UNCHANGED itinTab
           ELSE \E addOk \in CallOutcomes :
                  IF addOk
                  THEN /\ itinTab' = [itinTab EXCEPT ![l.owner] = [exists |-> TRUE, rows |-> <<>>]]
                       /\ proc' = touching(p, [l EXCEPT !.pc = "header", !.path = "created"])
                  ELSE /\ proc' = [proc EXCEPT ![p] =
                             [l EXCEPT !.pc = "done",
                                 !.result = Thrown("Failed to create Itinerary sheet")]]
                       /\ UNCHANGED itinTab
    /\ UNCHANGED <<profiles, locSheet, cachedLocations, cachedItineraries, provider, env,
                 tripCollaborators>>

\* updateRange of "Itinerary!A1:D1" inside the same try
ItinHeader(p) ==
    /\ proc[p].op = "updItin" /\ proc[p].pc = "header"
    /\ LET l == proc[p]
       IN  \E headerOk \in CallOutcomes :
             IF headerOk
             THEN /\ itinTab' = [itinTab EXCEPT ![l.owner].rows =
                                     updateRange(@, 1, <<ItineraryHeader>>)]
                  /\ proc' = touching(p, [l EXCEPT !.pc = "write"])
             ELSE /\ proc' = [proc EXCEPT ![p] =
                        [l EXCEPT !.pc = "done",
                            !.result = Thrown("Failed to create Itinerary sheet")]]
                  /\ UNCHANGED itinTab
    /\ UNCHANGED <<profiles, locSheet, cachedLocations, cachedItineraries, provider, env,
                 tripCollaborators>>

\* the else branch: clearValues of "Itinerary!A2:D"
ItinClear(p) ==
    /\ proc[p].op = "updItin" /\ proc[p].pc = "clear"
    /\ LET l == proc[p]
       IN  \E clearOk \in CallOutcomes :
             IF clearOk
             THEN /\ itinTab' = [itinTab EXCEPT ![l.owner].rows = clearValues(@)]
                  /\ proc' = touching(p, [l EXCEPT !.pc = "write"])
             ELSE /\ proc' = [proc EXCEPT ![p] =
                        [l EXCEPT !.pc = "done", !.result = Thrown("clearValues failed")]]
                  /\ UNCHANGED itinTab
    /\ UNCHANGED <<profiles, locSheet, cachedLocations, cachedItineraries, provider, env,
                 tripCollaborators>>

\* if (rows.length > 0) updateRange of "Itinerary!A2:D<n+1>"
ItinWrite(p) ==
    /\ proc[p].op = "updItin" /\ proc[p].pc = "write"
    /\ LET l == proc[p]
       IN  IF Len(l.rows) = 0
           THEN /\ proc' = [proc EXCEPT ![p] = [l EXCEPT !.pc = "upsert"]]
                /\ UNCHANGED itinTab
           ELSE \E writeOk \in CallOutcomes :
                  IF writeOk
                  THEN /\ itinTab' = [itinTab EXCEPT ![l.owner].rows = updateRange(@, 2, l.rows)]
                       /\ proc' = touching(p, [l EXCEPT !.pc = "upsert"])
                  ELSE /\ proc' = [proc EXCEPT ![p] =
                             [l EXCEPT !.pc = "done", !.result = Thrown("updateRange failed")]]
                       /\ UNCHANGED itinTab
    /\ UNCHANGED <<profiles, locSheet, cachedLocations, cachedItineraries, provider, env,
                 tripCollaborators>>

\* the awaited upsert, whose result is not inspected, then return { success: true }
ItinUpsert(p) ==
    /\ proc[p].op = "updItin" /\ proc[p].pc = "upsert"
    /\ LET l == proc[p]
           done == [l EXCEPT !.pc = "done", !.result = Returned([success |-> TRUE])]
       IN  \E upsertOk \in CallOutcomes :
             IF upsertOk
             THEN /\ cachedItineraries' = upsert(cachedItineraries, l.owner, l.sortedItems)
                  /\ proc' = touching(p, done)
             ELSE /\ proc' = [proc EXCEPT ![p] = done]
                  /\ UNCHANGED cachedItineraries
    /\ UNCHANGED <<profiles, locSheet, itinTab, cachedLocations, provider, env,
                 tripCollaborators>>

(* Checked instances of the itinerary *)

Item(day, locationId, order) ==
    [day |-> day, locationId |-> locationId, order |-> order, note |-> ""]

ItineraryItems == {Item("Day 2", "loc-0", 1), Item("Day 2", "loc-1", 0), Item("Day 10", "loc-0", 0)}

\* the lists of up to n distinct items, in any order
ItemLists(n) ==
    {s \in UNION {[1..k -> ItineraryItems] : k \in 0..n} :
        \A i, j \in 1..Len(s) : i # j => s[i] # s[j]}

StaleItinerary == <<Item("Day 10", "loc-0", 0), Item("Day 2", "loc-1", 0)>>

TabsAtStart ==
    {NoTab,
     [exists |-> TRUE, rows |-> <<ItineraryHeader>>],
     [exists |-> TRUE, rows |-> <<ItineraryHeader>> \o itemRows(StaleItinerary)]}

\* the first invocation carries up to MaxItems items, a concurrent second one
\* up to MaxRivalItems
InputLists(p) == IF p = 1 THEN ItemLists(MaxItems) ELSE ItemLists(MaxRivalItems)

InitItin ==
    /\ \E pr \in {LinkedProfile("ownerA"), UnlinkedProfile("ownerA")} :
         profiles = [o \in Owners |-> IF o = "ownerA" THEN pr ELSE LinkedProfile(o)]
    /\ locSheet = [o \in Owners |-> <<>>]
    /\ \E t \in TabsAtStart : itinTab = [o \in Owners |-> IF o = "ownerA" THEN t ELSE NoTab]
    /\ cachedLocations = [o \in Owners |-> NoSnapshot]
    /\ cachedItineraries = upsert([o \in Owners |-> NoSnapshot], "ownerA", StaleItinerary)
    /\ provider = [n \in PlaceNames |-> Answers]
    /\ env = "any"
    /\ proc = [p \in Procs |-> Idle]
    /\ tripCollaborators = [o \in Owners |-> {}]

NextItin ==
    \E p \in Procs :
        \/ \E itineraryItems \in InputLists(p) : ItinStart(p, "ownerA", itineraryItems)
        \/ ItinMeta(p)
        \/ ItinAddSheet(p)
        \/ ItinHeader(p)
        \/ ItinClear(p)
        \/ ItinWrite(p)
        \/ ItinUpsert(p)

SpecItin == InitItin /\ [][NextItin]_vars

----------------------------------------------------------------------------
(* Properties of updateItineraryInSheet (SpecItin) *)

\* invocation p has returned success, no other invocation has touched the
\* owner's tab or cache since p passed its tab check, and none is under way
ItinOk(p) ==
    /\ proc[p].op = "updItin" /\ proc[p].pc = "done"
    /\ proc[p].result.state = "ok" /\ ~proc[p].disturbed
    /\ \A q \in Procs \ {p} : proc[q].pc \in {"idle", "done"}

Occurrences(seq, x) == Cardinality({i \in DOMAIN seq : seq[i] = x})

\* list holds the items of S, each as often as S does, ordered by day and,
\* within a day, by order
IsSortOf(list, S) ==
    /\ Len(list) = Len(S)
    /\ \A i \in DOMAIN S : Occurrences(list, S[i]) = Occurrences(S, S[i])
    /\ \A i, j \in DOMAIN list :
         i < j => \/ DayRank[list[i].day] < DayRank[list[j].day]
                  \/ list[i].day = list[j].day /\ list[i].order <= list[j].order

\* C7: after updateItineraryInSheet(owner, S) returns success the owner's cached
\* itinerary is S sorted by (day, order), with nothing of the earlier cache
\* left; for empty S it is the empty list.
C7_ItineraryCacheReplaced ==
    \A p \in Procs : ItinOk(p) =>
        /\ cachedItineraries[proc[p].owner].present
        /\ IsSortOf(cachedItineraries[proc[p].owner].data, proc[p].itineraryItems)

\* C8: after updateItineraryInSheet(owner, S) returns success the Itinerary tab
\* has its header row and below it exactly the rows of sort(S), whichever branch
\* the tab check took (present, created, raced).
C8_ItinerarySheetReplaced ==
    \A p \in Procs : ItinOk(p) =>
        LET l == proc[p]
            values == itinTab[l.owner].rows
        IN  /\ itinTab[l.owner].exists
            /\ Len(values) >= 1
            /\ values[1] = ItineraryHeader
            /\ IsSortOf(l.sortedItems, l.itineraryItems)
            /\ Tail(values) = itemRows(l.sortedItems)

----------------------------------------------------------------------------
(* Repeated syncs: the caller re-invokes syncSheetToDb, nobody else edits the
   sheet, no collaborator call fails and every lookup is fast (SpecRepeat) *)

RepeatTemplates == {RowComplete, RowNoGeo, RowBare}

\* each place has one fixed answer at the provider
InitRepeat ==
    /\ profiles = [o \in Owners |-> LinkedProfile(o)]
    /\ \E s \in SheetsUpTo(MaxRepeatRows, RepeatTemplates) :
         locSheet = [o \in Owners |-> IF o = "ownerA" THEN s ELSE <<>>]
    /\ cachedLocations = upsert([o \in Owners |-> NoSnapshot], "ownerA", StaleLocations)
    /\ \E f \in [PlaceNames -> Answers] : provider = [n \in PlaceNames |-> {f[n]}]
    /\ env = "calm"
    /\ InitRest

NextRepeat ==
    \E p \in {1} :
        \/ SyncStart(p, "ownerA")
        \/ SyncRead(p)
        \/ SyncLookupReturn(p)
        \/ SyncWrite(p)
        \/ SyncUpsert(p)
        \/ SyncAgain(p)

\* the caller re-invokes whenever an invocation has returned, and the awaited
\* calls of the handler keep completing: NextRepeat is enabled in every state,
\* so the last conjunct is weak fairness of NextRepeat
SpecRepeat ==
    InitRepeat /\ [][NextRepeat]_vars /\ WF_vars(SyncAgain(1)) /\ []<><<NextRepeat>>_vars

\* the sync under way or just returned had a successful predecessor
SecondRun(p) == SyncOk(p) /\ proc[p].prev.known

Enrichable(i) ==
    \E p \in Procs :
        /\ proc[p].op = "sync"
        /\ \E j \in 1..Len(proc[p].selected) : proc[p].selected[j] = i
        /\ \A d \in provider[proc[p].pre[i + 1].name] : d.found

Enriched(i) == \E p \in Procs : proc[p].op = "sync" /\ i \in proc[p].everLooked

Drained == \E p \in Procs : SyncOk(p) /\ proc[p].result.value.remainingCount = 0

\* C5: under repeated re-invocation every selected record whose lookup succeeds
\* is eventually looked up and enriched, whatever precedes it in row order, and
\* some sync eventually reports remainingCount 0.
C5_ResumableProgress ==
    /\ \A i \in 0..(MaxRepeatRows - 1) : Enrichable(i) ~> Enriched(i)
    /\ <>Drained

----------------------------------------------------------------------------
(* syncSheetToDb as src/services/syncService.ts has it: the selected items are
   looked up together with Promise.all, only coordinates and the photo
   reference are enriched, and the cap is 5 *)

BATCH_SIZE_fanOut == 5

\* loc.name !== "Unknown" && (!loc.lat || !loc.lng || !hasPhotoRef)
needsFetchFanOut(loc, rawRow, colMap) ==
    /\ loc.name # "Unknown"
    /\ (loc.lat = 0 \/ loc.lng = 0 \/ Falsy(getVal(rawRow, colMap.photo)))

selectItemsFanOut(locations, rows, colMap) ==
    LET idxs == [k \in 1..Len(locations) |-> k - 1]
        Keep(i) == needsFetchFanOut(locations[i + 1], rows[i + 2], colMap)
    IN  SelectSeq(idxs, Keep)

\* one iteration of results.forEach for a lookup that answered
mergeFanOut(loc, data) ==
    LET withCoords == mergeCoords(loc, data)
    IN  IF Falsy(OrElse(data.photoRef, "")) THEN withCoords
        ELSE [withCoords EXCEPT !.photoUrl = getPhotoUrl(data.photoRef)]

\* updates.push({ rowIdx, lat: loc.lat, lng: loc.lng, photoRef })
sheetUpdateFanOut(i, loc, data) ==
    [rowIdx |-> i + 2, lat |-> loc.lat, lng |-> loc.lng,
     photoRef |-> OrElse(data.photoRef, "")]

\* the three changes pushed for one update; the photo cell is written even
\* when the reference is empty
changesOfFanOut(u, colMap) ==
    (IF colMap.lat # -1 THEN cellChange(colMap.lat, u.rowIdx, NumToCell(u.lat)) ELSE <<>>)
    \o (IF colMap.lng # -1 THEN cellChange(colMap.lng, u.rowIdx, NumToCell(u.lng)) ELSE <<>>)
    \o (IF colMap.photo # -1 THEN cellChange(colMap.photo, u.rowIdx, u.photoRef) ELSE <<>>)

RECURSIVE batchDataFanOut(_, _)
batchDataFanOut(updates, colMap) ==
    IF updates = <<>> THEN <<>>
    ELSE changesOfFanOut(Head(updates), colMap) \o batchDataFanOut(Tail(updates), colMap)

\* locals of one invocation: inFlight holds the positions in itemsToFetch whose
\* fetchPlaceData promise is pending, results what the settled ones answered
fanOutLocals(o) ==
    [op |-> "syncFanOut", pc |-> "read", owner |-> o, colMap |-> LegacyIndex,
     locations |-> <<>>, itemsToFetch |-> <<>>, inFlight |-> {}, results |-> <<>>,
     updates |-> <<>>, result |-> Pending]

startFanOut(o) ==
    IF profileIncomplete(profiles[o])
    THEN [fanOutLocals(o) EXCEPT !.pc = "done",
             !.result = Thrown("User profile incomplete or missing sheet.")]
    ELSE fanOutLocals(o)

RECURSIVE forEachResult(_, _)
\* results.forEach over the first n results, in item order
forEachResult(l, n) ==
    IF n = 0 THEN l
    ELSE LET before == forEachResult(l, n - 1)
             i == l.itemsToFetch[n]
             data == l.results[n]
             merged == mergeFanOut(before.locations[i + 1], data)
         IN  IF data.found
             THEN [before EXCEPT !.locations[i + 1] = merged,
                      !.updates = Append(@, sheetUpdateFanOut(i, merged, data))]
             ELSE before

\* Promise.all has resolved: process the results, then write back if needed
settleFanOut(l) ==
    LET done == forEachResult(l, Len(l.itemsToFetch))
    IN  [done EXCEPT !.pc = IF Len(done.updates) > 0 THEN "write" ELSE "upsert"]

\* from the rows read to Promise.all over the selected items
planFanOut(l, rows) ==
    LET colMap == repairHeaders(rows[1], legacyFallback(headerMatch(rows[1]))).colMap
        locations == transformRowsToLocations(rows, colMap)
        selected == selectItemsFanOut(locations, rows, colMap)
        items == IF Len(selected) > BATCH_SIZE_fanOut
                 THEN SubSeq(selected, 1, BATCH_SIZE_fanOut) ELSE selected
        planned == [l EXCEPT !.colMap = colMap, !.locations = locations,
                       !.itemsToFetch = items, !.inFlight = DOMAIN items,
                       !.results = [k \in DOMAIN items |-> NoData]]
    IN  IF Len(items) = 0 THEN [planned EXCEPT !.pc = "upsert"]
        ELSE [planned EXCEPT !.pc = "awaitAll"]

FanOutStart(p, o) ==
    /\ proc[p].pc = "idle"
    /\ proc' = [proc EXCEPT ![p] = startFanOut(o)]
    /\ UNCHANGED <<profiles, locSheet, itinTab, cachedLocations, cachedItineraries, provider, env,
                 tripCollaborators>>

FanOutRead(p) ==
    /\ proc[p].op = "syncFanOut" /\ proc[p].pc = "read"
    /\ LET l == proc[p]
           rows == locSheet[l.owner]
       IN  \E readOk \in CallOutcomes :
             proc' = [proc EXCEPT ![p] =
                 IF ~readOk
                 THEN [l EXCEPT !.pc = "done", !.result = Thrown("getValues failed")]
                 ELSE IF Len(rows) = 0
                      THEN [l EXCEPT !.pc = "done", !.result = Returned(<<>>)]
                      ELSE planFanOut(l, rows)]
    /\ UNCHANGED <<profiles, locSheet, itinTab, cachedLocations, cachedItineraries, provider, env,
                 tripCollaborators>>

\* one of the pending fetchPlaceData promises settles
FanOutLookupReturn(p) ==
    /\ proc[p].op = "syncFanOut" /\ proc[p].pc = "awaitAll"
    /\ LET l == proc[p]
       IN  \E n \in l.inFlight :
           \E data \in provider[l.locations[l.itemsToFetch[n] + 1].name] :
             LET settled == [l EXCEPT !.inFlight = @ \ {n}, !.results[n] = data]
             IN  proc' = [proc EXCEPT ![p] =
                     IF settled.inFlight = {} THEN settleFanOut(settled) ELSE settled]
    /\ UNCHANGED <<profiles, locSheet, itinTab, cachedLocations, cachedItineraries, provider, env,
                 tripCollaborators>>

FanOutWrite(p) ==
    /\ proc[p].op = "syncFanOut" /\ proc[p].pc = "write"
    /\ LET l == proc[p]
       IN  \E writeOk \in CallOutcomes :
             IF writeOk
             THEN /\ locSheet' = [locSheet EXCEPT ![l.owner] =
                                     batchUpdateValues(@, batchDataFanOut(l.updates, l.colMap))]
                  /\ proc' = [proc EXCEPT ![p] = [l EXCEPT !.pc = "upsert"]]
             ELSE /\ proc' = [proc EXCEPT ![p] =
                        [l EXCEPT !.pc = "done", !.result = Thrown("batchUpdate failed")]]
                  /\ UNCHANGED locSheet
    /\ UNCHANGED <<profiles, itinTab, cachedLocations, cachedItineraries, provider, env,
                 tripCollaborators>>

FanOutUpsert(p) ==
    /\ proc[p].op = "syncFanOut" /\ proc[p].pc = "upsert"
    /\ LET l == proc[p]
       IN  \E upsertOk \in CallOutcomes :
             IF upsertOk
             THEN /\ cachedLocations' = upsert(cachedLocations, l.owner, l.locations)
                  /\ proc' = [proc EXCEPT ![p] =
                        [l EXCEPT !.pc = "done", !.result = Returned(l.locations)]]
             ELSE /\ proc' = [proc EXCEPT ![p] =
                        [l EXCEPT !.pc = "done", !.result = Thrown("upsertError")]]
                  /\ UNCHANGED cachedLocations
    /\ UNCHANGED <<profiles, locSheet, itinTab, cachedItineraries, provider, env,
                 tripCollaborators>>

InitFanOut ==
    /\ \E pr \in {LinkedProfile("ownerA"), UnlinkedProfile("ownerA")} :
         profiles = [o \in Owners |-> IF o = "ownerA" THEN pr ELSE LinkedProfile(o)]
    /\ \E s \in SheetsUpTo(MaxFanOutRows, RowTemplates) :
         locSheet = [o \in Owners |-> IF o = "ownerA" THEN s ELSE <<>>]
    /\ cachedLocations = upsert([o \in Owners |-> NoSnapshot], "ownerA", StaleLocations)
    /\ provider = [n \in PlaceNames |-> Answers]
    /\ env = "any"
    /\ InitRest

NextFanOut ==
    \E p \in {1} :
        \/ FanOutStart(p, "ownerA")
        \/ FanOutRead(p)
        \/ FanOutLookupReturn(p)
        \/ FanOutWrite(p)
        \/ FanOutUpsert(p)

SpecFanOut == InitFanOut /\ [][NextFanOut]_vars

\* the place-lookup calls of invocation p that have been started and have not
\* returned
LookupsInFlight(p) ==
    IF proc[p].op = "syncFanOut" THEN Cardinality(proc[p].inFlight)
    ELSE IF proc[p].op = "sync" /\ proc[p].pc = "await" THEN 1
    ELSE 0

\* C11: within one sync invocation at most one place-lookup call is in flight
\* at any time.
C11_LookupsSequential == \A p \in Procs : LookupsInFlight(p) <= 1

----------------------------------------------------------------------------
(* Lookup failures inside one invocation (Spec) *)

\* the lookups of l that answered nothing (fetchPlaceData returns null, also
\* when the request threw)
Misses(l) == {j \in 1..Len(l.lookups) : ~l.lookups[j].data.found}

\* C12: a lookup that returns nothing (or throws, which fetchPlaceData turns
\* into nothing) for one selected item leaves that item's record unchanged, adds
\* no pending write for it and never ends the invocation: while the time budget
\* is not exhausted the next selected item is looked up, an invocation that was
\* not halted by the time budget has looked up every item of its batch, its only
\* errors are those of the write-back or the upsert, and on success the pending
\* writes were written in one batch and the records were published to the cache.
C12_LookupFailureIsolated ==
    \A p \in Procs : (proc[p].op = "sync" /\ Misses(proc[p]) # {}) =>
        LET l == proc[p]
        IN  /\ \A j \in Misses(l) :
                 /\ l.locations[l.lookups[j].i + 1] = l.pre[l.lookups[j].i + 1]
                 /\ \A u \in 1..Len(l.updates) : l.updates[u].rowIdx # l.lookups[j].i + 2
            /\ (l.k < Len(l.itemsToFetch) /\ l.elapsed <= TIMEOUT_MS) => l.pc = "await"
            /\ (l.pc # "await" /\ ~l.timedOut) => Len(l.lookups) = Len(l.itemsToFetch)
            /\ (l.pc = "done" /\ l.result.state = "error") =>
                   l.result.message \in {"batchUpdate failed", "upsertError"}
            /\ SyncOk(p) =>
                   /\ cachedLocations[l.owner].data = l.locations
                   /\ Len(l.updates) > 0 => Len(l.batches) = 1

\* a first lookup answered nothing, a later item of the same invocation was
\* looked up and enriched, written back and published
C12_Witness ==
    \E p \in Procs :
        /\ SyncOk(p) /\ 1 \in Misses(proc[p])
        /\ \E j \in 2..Len(proc[p].lookups) : proc[p].lookups[j].data.found
        /\ Len(proc[p].batches) = 1
        /\ cachedLocations[proc[p].owner].data = proc[p].locations

----------------------------------------------------------------------------
(* updateLocationInSheet *)

\* parseInt(locationId.replace("loc-", "")) is a number
idParses(locationId) == locationId[1] = "loc-"

\* parseInt(locationId.replace("loc-", "")) + 2
rowIndexOf(locationId) == locationId[2] + 2

\* the fields of a Partial<Location> the handler addresses; a field the request
\* body does not carry is UNDEF
NoUpdates == [name |-> UNDEF, city |-> UNDEF, type |-> UNDEF, priceJpy |-> UNDEF]

\* the changes pushed for the truthy fields, columns A to D fixed
locationChanges(updates, rowIndex) ==
    (IF ~Falsy(updates.name) THEN <<[range |-> <<"A", rowIndex>>, value |-> updates.name]>>
     ELSE <<>>)
    \o (IF ~Falsy(updates.city) THEN <<[range |-> <<"B", rowIndex>>, value |-> updates.city]>>
        ELSE <<>>)
    \o (IF ~Falsy(updates.type) THEN <<[range |-> <<"C", rowIndex>>, value |-> updates.type]>>
        ELSE <<>>)
    \o (IF ~Falsy(updates.priceJpy)
        THEN <<[range |-> <<"D", rowIndex>>, value |-> updates.priceJpy]>>
        ELSE <<>>)

\* { ...loc, ...updates }: the fields the body carries replace those of loc
spreadUpdates(loc, updates) ==
    [f \in DOMAIN loc |->
        IF f \in DOMAIN updates /\ updates[f] # UNDEF THEN updates[f] ELSE loc[f]]

\* cache.data.map(loc => loc.id === locationId ? { ...loc, ...updates } : loc)
newLocations(data, locationId, updates) ==
    [k \in 1..Len(data) |->
        IF data[k].id = locationId THEN spreadUpdates(data[k], updates) ELSE data[k]]

\* locals of one invocation; before and cache are the sheet as it was when the
\* changes were sent and the snapshot the select returned
updLocals(o, locationId, updates) ==
    [op |-> "updLoc", pc |-> "write", owner |-> o,
     locationId |-> locationId, updates |-> updates,
     changes |-> <<>>, before |-> <<>>, wrote |-> FALSE,
     cache |-> NoSnapshot, result |-> Pending]

\* profile check, id parsing and the list of changes
startUpdate(o, locationId, updates) ==
    IF profileIncomplete(profiles[o])
    THEN [updLocals(o, locationId, updates) EXCEPT !.pc = "done",
             !.result = Thrown("User profile incomplete.")]
    ELSE IF ~idParses(locationId)
    THEN [updLocals(o, locationId, updates) EXCEPT !.pc = "done",
             !.result = Thrown("Invalid Location ID")]
    ELSE LET changes == locationChanges(updates, rowIndexOf(locationId))
         IN  [updLocals(o, locationId, updates) EXCEPT
                 !.changes = changes,
                 !.pc = IF Len(changes) > 0 THEN "write" ELSE "select"]

UpdStart(p, o, locationId, updates) ==
    /\ proc[p].pc = "idle"
    /\ proc' = [proc EXCEPT ![p] = startUpdate(o, locationId, updates)]
    /\ UNCHANGED <<profiles, locSheet, itinTab, cachedLocations, cachedItineraries, provider, env,
                 tripCollaborators>>

\* if (changes.length > 0) await batchUpdateValues(changes)
UpdWrite(p) ==
    /\ proc[p].op = "updLoc" /\ proc[p].pc = "write"
    /\ LET l == proc[p]
       IN  \E writeOk \in CallOutcomes :
             IF writeOk
             THEN /\ locSheet' = [locSheet EXCEPT ![l.owner] = batchUpdateValues(@, l.changes)]
                  /\ proc' = [proc EXCEPT ![p] =
                        [l EXCEPT !.pc = "select", !.before = locSheet[l.owner],
                                  !.wrote = TRUE]]
             ELSE /\ proc' = [proc EXCEPT ![p] =
                        [l EXCEPT !.pc = "done", !.result = Thrown("batchUpdate failed")]]
                  /\ UNCHANGED locSheet
    /\ UNCHANGED <<profiles, itinTab, cachedLocations, cachedItineraries, provider, env,
                 tripCollaborators>>

\* the select of the owner's snapshot, whose error is not inspected: without
\* cache.data the handler returns { success: true } at once
UpdSelect(p) ==
    /\ proc[p].op = "updLoc" /\ proc[p].pc = "select"
    /\ LET l == proc[p]
       IN  \E selectOk \in CallOutcomes :
             proc' = [proc EXCEPT ![p] =
                 IF selectOk /\ cachedLocations[l.owner].present
                 THEN [l EXCEPT !.pc = "update", !.cache = cachedLocations[l.owner]]
                 ELSE [l EXCEPT !.pc = "done", !.result = Returned([success |-> TRUE])]]
    /\ UNCHANGED <<profiles, locSheet, itinTab, cachedLocations, cachedItineraries, provider, env,
                 tripCollaborators>>

\* the awaited update of the owner's row, whose result is not inspected, then
\* return { success: true }; an update of a row that is gone changes nothing
UpdCacheUpdate(p) ==
    /\ proc[p].op = "updLoc" /\ proc[p].pc = "update"
    /\ LET l == proc[p]
           done == [l EXCEPT !.pc = "done", !.result = Returned([success |-> TRUE])]
       IN  \E updateOk \in CallOutcomes :
             /\ proc' = [proc EXCEPT ![p] = done]
             /\ cachedLocations' =
                  IF updateOk /\ cachedLocations[l.owner].present
                  THEN upsert(cachedLocations, l.owner,
                              newLocations(l.cache.data, l.locationId, l.updates))
                  ELSE cachedLocations
    /\ UNCHANGED <<profiles, locSheet, itinTab, cachedItineraries, provider, env,
                 tripCollaborators>>

(* Checked instances of the single-record update *)

UpdateTemplates == {RowComplete, RowBare}

\* an id of another form: nothing is left to parse once "loc-" is not found
ForeignId == <<"id-", 0>>

LocationIds == {LocId(0), LocId(1), ForeignId}

UpdateInputs ==
    {NoUpdates,
     [NoUpdates EXCEPT !.city = "Osaka"],
     [NoUpdates EXCEPT !.city = ""],
     [NoUpdates EXCEPT !.name = "Sushi Dai", !.city = "Tokyo"],
     [NoUpdates EXCEPT !.type = "Sushi", !.priceJpy = "3000"]}

\* the snapshot a sync of the sheet has published, or none yet
SnapshotsOf(rows) ==
    {NoSnapshot} \cup
    (IF Len(rows) = 0 THEN {}
     ELSE {[present |-> TRUE, data |-> transformRowsToLocations(rows, LegacyIndex)]})

InitUpdate ==
    /\ \E pr \in {LinkedProfile("ownerA"), UnlinkedProfile("ownerA")} :
         profiles = [o \in Owners |-> IF o = "ownerA" THEN pr ELSE LinkedProfile(o)]
    /\ \E s \in SheetsUpTo(MaxUpdateRows, UpdateTemplates) :
         /\ locSheet = [o \in Owners |-> IF o = "ownerA" THEN s ELSE <<>>]
         /\ \E c \in SnapshotsOf(s) :
              cachedLocations = [o \in Owners |-> IF o = "ownerA" THEN c ELSE NoSnapshot]
    /\ provider = [n \in PlaceNames |-> Answers]
    /\ env = "any"
    /\ InitRest

NextUpdate ==
    \E p \in {1} :
        \/ \E locationId \in LocationIds : \E updates \in UpdateInputs :
             UpdStart(p, "ownerA", locationId, updates)
        \/ UpdWrite(p)
        \/ UpdSelect(p)
        \/ UpdCacheUpdate(p)

SpecUpdate == InitUpdate /\ [][NextUpdate]_vars

(* Properties of updateLocationInSheet (SpecUpdate) *)

UpdOk(p) == proc[p].op = "updLoc" /\ proc[p].pc = "done" /\ proc[p].result.state = "ok"

\* the request changes only city
OnlyCity(updates) ==
    updates.city # UNDEF /\ updates.name = UNDEF /\ updates.type = UNDEF
        /\ updates.priceJpy = UNDEF

\* C13: after updateLocationInSheet(owner, id, updates) with updates carrying
\* only city returns success, exactly one cell was written, column B of row
\* (index of id) + 2, holding the new city, and every cached record with that id
\* has the new city and its other fields, id included, as before, while every
\* other cached record is as before.
C13_TargetedMerge ==
    \A p \in Procs : (UpdOk(p) /\ OnlyCity(proc[p].updates)) =>
        LET l == proc[p]
            was == l.cache.data
            now == cachedLocations[l.owner].data
        IN  /\ l.wrote /\ Len(l.changes) = 1
            /\ l.changes[1].range = <<"B", l.locationId[2] + 2>>
            /\ CellAt(locSheet[l.owner], l.locationId[2] + 2, 1) = l.updates.city
            /\ l.cache.present =>
                 /\ Len(now) = Len(was)
                 /\ \A k \in 1..Len(was) :
                      IF was[k].id = l.locationId
                      THEN /\ now[k].city = l.updates.city
                           /\ \A f \in DOMAIN was[k] \ {"city"} : now[k][f] = was[k][f]
                      ELSE now[k] = was[k]

(* Collaborator failures in the three writing handlers *)

\* invocation p takes the step that ends it with a success result
EndsOk(p) == proc[p].pc # "done" /\ proc'[p].pc = "done" /\ proc'[p].result.state = "ok"

\* invocation p takes the step that ends it with an error
EndsInError(p) == proc[p].pc # "done" /\ proc'[p].pc = "done" /\ proc'[p].result.state = "error"

\* C14: in syncSheetToDb, updateLocationInSheet and updateItineraryInSheet a
\* failed spreadsheet write-back or a failed cache upsert/update ends the
\* invocation in an error: an invocation passes its write-back only with the
\* cells written, returns success from its cache write only with the cache
\* holding what it published, and an invocation that ends in an error at its
\* cache write leaves the cache as it was.
C14_FailuresTerminal ==
    [][\A p \in Procs :
         LET l == proc[p]
         IN  /\ (l.op = "sync" /\ l.pc = "write" /\ proc'[p].pc = "upsert") =>
                    locSheet'[l.owner] = batchUpdateValues(locSheet[l.owner],
                                                          batchData(l.updates, l.colMap))
             /\ (l.op = "sync" /\ l.pc = "upsert" /\ EndsOk(p)) =>
                    cachedLocations'[l.owner] = [present |-> TRUE, data |-> l.locations]
             /\ (l.op = "updLoc" /\ l.pc = "write" /\ proc'[p].pc = "select") =>
                    locSheet'[l.owner] = batchUpdateValues(locSheet[l.owner], l.changes)
             /\ (l.op = "updLoc" /\ l.pc = "update" /\ EndsOk(p)) =>
                    cachedLocations'[l.owner].data =
                        newLocations(l.cache.data, l.locationId, l.updates)
             /\ (l.op = "updItin" /\ l.pc = "write" /\ proc'[p].pc = "upsert"
                    /\ Len(l.rows) > 0) =>
                    itinTab'[l.owner].rows = updateRange(itinTab[l.owner].rows, 2, l.rows)
             /\ (l.op = "updItin" /\ l.pc = "upsert" /\ EndsOk(p)) =>
                    cachedItineraries'[l.owner] = [present |-> TRUE, data |-> l.sortedItems]
             /\ (l.op \in {"sync", "updLoc", "updItin"} /\ l.pc \in {"upsert", "update"}
                    /\ EndsInError(p)) =>
                    /\ cachedLocations' = cachedLocations
                    /\ cachedItineraries' = cachedItineraries]_vars

----------------------------------------------------------------------------
(* syncItinerary *)

\* the order cells the checked tabs hold
OrderCells == {"0", "1", "2"}

\* the number parseInt gives for a text that starts with no digit
NaN == "NaN"

\* row[2] ? parseInt(row[2]) : idx
orderOf(cell, idx) ==
    IF Falsy(cell) THEN idx
    ELSE IF cell \in OrderCells THEN CHOOSE n \in 0..2 : ToString(n) = cell
    ELSE NaN

hasLocationId(item) == ~Falsy(item.locationId)

\* rows.slice(1).map((row, idx) => ...).filter(item => item.locationId)
transformRowsToItinerary(rows) ==
    SelectSeq([k \in 1..(Len(rows) - 1) |->
                  [day |-> OrElse(getVal(rows[k + 1], 0), "Unscheduled"),
                   locationId |-> OrElse(getVal(rows[k + 1], 1), ""),
                   order |-> orderOf(getVal(rows[k + 1], 2), k - 1),
                   note |-> OrElse(getVal(rows[k + 1], 3), "")]],
              hasLocationId)

\* locals of one invocation; rows is what getValues returned, read whether it
\* has returned
sItinLocals(o) ==
    [op |-> "syncItin", pc |-> "read", owner |-> o, read |-> FALSE, rows |-> <<>>,
     itineraryData |-> <<>>, result |-> Pending]

startSyncItinerary(o) ==
    IF profileIncomplete(profiles[o])
    THEN [sItinLocals(o) EXCEPT !.pc = "done", !.result = Thrown("User profile incomplete.")]
    ELSE sItinLocals(o)

SItinStart(p, o) ==
    /\ proc[p].pc = "idle"
    /\ proc' = [proc EXCEPT ![p] = startSyncItinerary(o)]
    /\ UNCHANGED <<profiles, locSheet, itinTab, cachedLocations, cachedItineraries, provider, env,
                 tripCollaborators>>

\* getValues of "Itinerary!A:D": a range on a tab that does not exist is
\* rejected, a tab without values reads as undefined
SItinRead(p) ==
    /\ proc[p].op = "syncItin" /\ proc[p].pc = "read"
    /\ LET l == proc[p]
           rows == itinTab[l.owner].rows
       IN  \E readOk \in CallOutcomes :
             proc' = [proc EXCEPT ![p] =
                 IF ~readOk \/ ~itinTab[l.owner].exists
                 THEN [l EXCEPT !.pc = "done", !.result = Thrown("getValues failed")]
                 ELSE IF Len(rows) = 0
                 THEN [l EXCEPT !.pc = "header", !.read = TRUE]
                 ELSE [l EXCEPT !.pc = "upsert", !.read = TRUE, !.rows = rows,
                                !.itineraryData = transformRowsToItinerary(rows)]]
    /\ UNCHANGED <<profiles, locSheet, itinTab, cachedLocations, cachedItineraries, provider, env,
                 tripCollaborators>>

\* if (!rows): updateRange of the header inside a try whose catch only logs
SItinHeader(p) ==
    /\ proc[p].op = "syncItin" /\ proc[p].pc = "header"
    /\ LET l == proc[p]
       IN  \E headerOk \in CallOutcomes :
             /\ proc' = [proc EXCEPT ![p] = [l EXCEPT !.pc = "upsert"]]
             /\ itinTab' = IF headerOk /\ itinTab[l.owner].exists
                           THEN [itinTab EXCEPT ![l.owner].rows =
                                    updateRange(@, 1, <<ItineraryHeader>>)]
                           ELSE itinTab
    /\ UNCHANGED <<profiles, locSheet, cachedLocations, cachedItineraries, provider, env,
                 tripCollaborators>>

\* the upsert of cached_itineraries; if (upsertError) throw upsertError
SItinUpsert(p) ==
    /\ proc[p].op = "syncItin" /\ proc[p].pc = "upsert"
    /\ LET l == proc[p]
       IN  \E upsertOk \in CallOutcomes :
             IF upsertOk
             THEN /\ cachedItineraries' = upsert(cachedItineraries, l.owner, l.itineraryData)
                  /\ proc' = [proc EXCEPT ![p] =
                        [l EXCEPT !.pc = "done", !.result = Returned(l.itineraryData)]]
             ELSE /\ proc' = [proc EXCEPT ![p] =
                        [l EXCEPT !.pc = "done", !.result = Thrown("upsertError")]]
                  /\ UNCHANGED cachedItineraries
    /\ UNCHANGED <<profiles, locSheet, itinTab, cachedLocations, provider, env,
                 tripCollaborators>>

----------------------------------------------------------------------------
(* getLocationsFromDb, getItineraryFromDb *)

\* a select that is not narrowed to the owner's row
cachedData_anyRow(table, o) ==
    IF table["ownerA"].present THEN table["ownerA"].data ELSE <<>>

\* data?.data || [] of the owner's row; no row is error PGRST116, which is let
\* through
cachedData(table, o) == IF table[o].present THEN table[o].data ELSE <<>>

getLocals(op, o) == [op |-> op, pc |-> "select", owner |-> o, result |-> Pending]

GetLocStart(p, o) ==
    /\ proc[p].pc = "idle"
    /\ proc' = [proc EXCEPT ![p] = getLocals("getLoc", o)]
    /\ UNCHANGED <<profiles, locSheet, itinTab, cachedLocations, cachedItineraries, provider, env,
                 tripCollaborators>>

\* the select of cached_locations; any other error is thrown
GetLocSelect(p) ==
    /\ proc[p].op = "getLoc" /\ proc[p].pc = "select"
    /\ LET l == proc[p]
       IN  \E selectOk \in CallOutcomes :
             proc' = [proc EXCEPT ![p] =
                 IF selectOk
                 THEN [l EXCEPT !.pc = "done",
                          !.result = Returned(cachedData(cachedLocations, l.owner))]
                 ELSE [l EXCEPT !.pc = "done", !.result = Thrown("select failed")]]
    /\ UNCHANGED <<profiles, locSheet, itinTab, cachedLocations, cachedItineraries, provider, env,
                 tripCollaborators>>

GetItinStart(p, o) ==
    /\ proc[p].pc = "idle"
    /\ proc' = [proc EXCEPT ![p] = getLocals("getItin", o)]
    /\ UNCHANGED <<profiles, locSheet, itinTab, cachedLocations, cachedItineraries, provider, env,
                 tripCollaborators>>

\* the select of cached_itineraries; any other error is thrown
GetItinSelect(p) ==
    /\ proc[p].op = "getItin" /\ proc[p].pc = "select"
    /\ LET l == proc[p]
       IN  \E selectOk \in CallOutcomes :
             proc' = [proc EXCEPT ![p] =
                 IF selectOk
                 THEN [l EXCEPT !.pc = "done",
                          !.result = Returned(cachedData(cachedItineraries, l.owner))]
                 ELSE [l EXCEPT !.pc = "done", !.result = Thrown("select failed")]]
    /\ UNCHANGED <<profiles, locSheet, itinTab, cachedLocations, cachedItineraries, provider, env,
                 tripCollaborators>>

----------------------------------------------------------------------------
(* disconnectSheet *)

\* a delete that is not narrowed to the owner's row
deleteSnapshot_everyOwner(table, o) == [x \in DOMAIN table |-> NoSnapshot]

\* delete().eq("owner_id", ownerId)
deleteSnapshot(table, o) == [table EXCEPT ![o] = NoSnapshot]

discLocals(o) == [op |-> "disconnect", pc |-> "profile", owner |-> o, result |-> Pending]

DiscStart(p, o) ==
    /\ proc[p].pc = "idle"
    /\ proc' = [proc EXCEPT ![p] = discLocals(o)]
    /\ UNCHANGED <<profiles, locSheet, itinTab, cachedLocations, cachedItineraries, provider, env,
                 tripCollaborators>>

\* update({ spreadsheet_id: null }).eq("id", ownerId), result not inspected
DiscProfile(p) ==
    /\ proc[p].op = "disconnect" /\ proc[p].pc = "profile"
    /\ LET l == proc[p]
       IN  \E updateOk \in CallOutcomes :
             /\ proc' = [proc EXCEPT ![p] = [l EXCEPT !.pc = "delete"]]
             /\ profiles' = IF updateOk /\ profiles[l.owner].exists
                            THEN [profiles EXCEPT ![l.owner].spreadsheet_id = <<>>]
                            ELSE profiles
    /\ UNCHANGED <<locSheet, itinTab, cachedLocations, cachedItineraries, provider, env,
                 tripCollaborators>>

\* the delete of the owner's cached_locations row, result not inspected, then
\* return { success: true }
DiscDelete(p) ==
    /\ proc[p].op = "disconnect" /\ proc[p].pc = "delete"
    /\ LET l == proc[p]
       IN  \E deleteOk \in CallOutcomes :
             /\ proc' = [proc EXCEPT ![p] =
                   [l EXCEPT !.pc = "done", !.result = Returned([success |-> TRUE])]]
             /\ cachedLocations' = IF deleteOk THEN deleteSnapshot(cachedLocations, l.owner)
                                   ELSE cachedLocations
    /\ UNCHANGED <<profiles, locSheet, itinTab, cachedItineraries, provider, env,
                 tripCollaborators>>

----------------------------------------------------------------------------
(* All handlers, one invocation for each of two owners, interleaved
   (SpecHandlers) *)

MissingProfile == [exists |-> FALSE, spreadsheet_id |-> <<>>, google_refresh_token |-> <<>>]

TokenlessProfile(o) ==
    [exists |-> TRUE, spreadsheet_id |-> <<"sheet", o>>, google_refresh_token |-> <<>>]

ProfilesOf(o) == {LinkedProfile(o), UnlinkedProfile(o), TokenlessProfile(o), MissingProfile}

\* the owner whose request invocation slot p serves
OwnerOf(p) == IF p = 1 THEN "ownerA" ELSE "ownerB"

SheetOf(o) == IF o = "ownerA" THEN <<LegacyHeader, RowBare>> ELSE <<LegacyHeader, RowNoGeo>>

TabsOf(o) ==
    IF o = "ownerA"
    THEN {[exists |-> TRUE, rows |-> <<ItineraryHeader>> \o itemRows(StaleItinerary)]}
    ELSE {NoTab, [exists |-> TRUE, rows |-> <<>>]}

HandlerUpdates == {[NoUpdates EXCEPT !.city = "Osaka"]}

HandlerItems == {<<>>, <<Item("Day 2", "loc-0", 1)>>}

InitHandlers ==
    /\ \E prA \in ProfilesOf("ownerA") : \E prB \in {LinkedProfile("ownerB"), MissingProfile} :
         profiles = [o \in Owners |-> IF o = "ownerA" THEN prA ELSE prB]
    /\ locSheet = [o \in Owners |-> SheetOf(o)]
    /\ \E tA \in TabsOf("ownerA") : \E tB \in TabsOf("ownerB") :
         itinTab = [o \in Owners |-> IF o = "ownerA" THEN tA ELSE tB]
    /\ cachedLocations =
         [o \in Owners |-> [present |-> TRUE,
                            data |-> transformRowsToLocations(SheetOf(o), LegacyIndex)]]
    /\ cachedItineraries =
         [o \in Owners |-> IF o = "ownerA" THEN [present |-> TRUE, data |-> StaleItinerary]
                           ELSE NoSnapshot]
    /\ provider = [n \in PlaceNames |-> {NoData, FullData}]
    /\ env = "any"
    /\ proc = [p \in Procs |-> Idle]
    /\ tripCollaborators = [o \in Owners |-> {}]

NextHandlers ==
    \E p \in Procs :
        \/ SyncStart(p, OwnerOf(p))
        \/ SyncRead(p)
        \/ SyncLookupReturn(p)
        \/ SyncWrite(p)
        \/ SyncUpsert(p)
        \/ \E updates \in HandlerUpdates : UpdStart(p, OwnerOf(p), LocId(0), updates)
        \/ UpdWrite(p)
        \/ UpdSelect(p)
        \/ UpdCacheUpdate(p)
        \/ SItinStart(p, OwnerOf(p))
        \/ SItinRead(p)
        \/ SItinHeader(p)
        \/ SItinUpsert(p)
        \/ \E itineraryItems \in HandlerItems : ItinStart(p, OwnerOf(p), itineraryItems)
        \/ ItinMeta(p)
        \/ ItinAddSheet(p)
        \/ ItinHeader(p)
        \/ ItinClear(p)
        \/ ItinWrite(p)
        \/ ItinUpsert(p)
        \/ GetLocStart(p, OwnerOf(p))
        \/ GetLocSelect(p)
        \/ GetItinStart(p, OwnerOf(p))
        \/ GetItinSelect(p)
        \/ DiscStart(p, OwnerOf(p))
        \/ DiscProfile(p)
        \/ DiscDelete(p)

SpecHandlers == InitHandlers /\ [][NextHandlers]_vars

(* Properties of the handlers side by side (SpecHandlers) *)

\* the owner has no profile, or one without a spreadsheet id or refresh token
LacksConfig(o) ==
    ~profiles[o].exists \/ profiles[o].spreadsheet_id = <<>>
        \/ profiles[o].google_refresh_token = <<>>

ConfiguredHandlers == {"sync", "updLoc", "syncItin", "updItin"}

\* C15: when the owner's profile is missing or lacks a spreadsheet id or a
\* refresh token, an invocation of syncSheetToDb, updateLocationInSheet,
\* syncItinerary or updateItineraryInSheet ends in an error in its first step,
\* before any spreadsheet call, lookup or cache write (no sheet, tab or cache has
\* changed), and an ended invocation does nothing further.
C15_ConfigErrorsFailFast ==
    [][\A p \in Procs :
         /\ (proc[p].pc = "idle" /\ proc'[p].op \in ConfiguredHandlers
                /\ LacksConfig(proc'[p].owner)) =>
                /\ proc'[p].pc = "done" /\ proc'[p].result.state = "error"
                /\ UNCHANGED <<profiles, locSheet, itinTab, cachedLocations, cachedItineraries>>
         /\ (proc[p].op \in ConfiguredHandlers /\ proc[p].pc = "done") =>
                proc'[p] = proc[p]]_vars

\* both owners lack configuration and both invocations, of two different
\* handlers, have ended in the configuration error
C15_Witness ==
    /\ proc[1].op = "syncItin" /\ proc[2].op = "updLoc"
    /\ \A p \in Procs :
         /\ LacksConfig(proc[p].owner)
         /\ proc[p].pc = "done" /\ proc[p].result.state = "error"
         /\ proc[p].result.message = "User profile incomplete."

\* what the stores hold for owner b
StoresOf(b) ==
    <<profiles[b], locSheet[b], itinTab[b], cachedLocations[b], cachedItineraries[b]>>

\* C16: under any interleaving, a step of a sync, single-record update,
\* itinerary sync, itinerary rewrite or disconnect invoked for one owner leaves
\* the profile, spreadsheet tabs and cached snapshots of every other owner as
\* they were, and what the step reads (rows, snapshot) is the invoking owner's.
C16_OwnerIndependence ==
    [][\A p \in Procs :
         (proc'[p] # proc[p] /\ proc'[p].op # "idle") =>
             LET o == proc'[p].owner
                 l == proc'[p]
             IN  /\ \A b \in Owners \ {o} : StoresOf(b)' = StoresOf(b)
                 /\ (l.op = "sync" /\ proc[p].pc = "read" /\ l.pc # "done") =>
                        l.before = locSheet[o]
                 /\ (l.op = "updLoc" /\ l.pc = "update") => l.cache = cachedLocations[o]
                 /\ (l.op = "syncItin" /\ proc[p].pc = "read" /\ l.pc = "upsert") =>
                        l.rows = itinTab[o].rows
                 /\ (l.op = "updItin" /\ proc[p].pc = "meta" /\ l.pc # "done") =>
                        (l.path = "present") = itinTab[o].exists]_vars

\* owner A has disconnected while owner B's sync enriched and published B's
\* record: A's snapshot is gone, B's is there with coordinates
C16_Witness ==
    /\ proc[1].op = "disconnect" /\ proc[1].pc = "done"
    /\ SyncOk(2) /\ proc[2].updatedCount = 1
    /\ ~cachedLocations["ownerA"].present
    /\ cachedLocations["ownerB"].present
    /\ cachedLocations["ownerB"].data = proc[2].locations
    /\ profiles["ownerA"].spreadsheet_id = <<>>
    /\ profiles["ownerB"].spreadsheet_id # <<>>

ReadHandlers == {"getLoc", "getItin"}

\* C20: getLocationsFromDb and getItineraryFromDb only select from the cache:
\* no step of theirs changes a sheet, a tab, a profile or a cached snapshot or
\* waits for the spreadsheet or the place lookup, and what they return is the
\* owner's cached data, or the empty list when the owner has no snapshot.
C20_ReadsFromCacheOnly ==
    [][\A p \in Procs :
         (proc'[p] # proc[p] /\ proc'[p].op \in ReadHandlers) =>
             LET l == proc'[p]
                 table == IF l.op = "getLoc" THEN cachedLocations ELSE cachedItineraries
             IN  /\ UNCHANGED <<profiles, locSheet, itinTab, cachedLocations,
                                cachedItineraries>>
                 /\ l.pc \in {"select", "done"}
                 /\ (l.pc = "done" /\ l.result.state = "ok") =>
                        l.result.value = IF table[l.owner].present
                                         THEN table[l.owner].data ELSE <<>>]_vars

\* owner A was served the cached locations, owner B, who has no itinerary
\* snapshot, the empty list
C20_Witness ==
    /\ proc[1].op = "getLoc" /\ proc[1].pc = "done" /\ proc[1].result.state = "ok"
    /\ proc[1].result.value = cachedLocations["ownerA"].data
    /\ Len(proc[1].result.value) > 0
    /\ proc[2].op = "getItin" /\ proc[2].pc = "done" /\ proc[2].result.state = "ok"
    /\ proc[2].result.value = <<>>
    /\ ~cachedItineraries["ownerB"].present

----------------------------------------------------------------------------
(* Two concurrent syncSheetToDb invocations for one owner (SpecRace) *)

RaceTemplates == {RowNoGeo, RowBare}

InitRace ==
    /\ profiles = [o \in Owners |-> LinkedProfile(o)]
    /\ \E s \in SheetsUpTo(MaxRaceRows, RaceTemplates) :
         locSheet = [o \in Owners |-> IF o = "ownerA" THEN s ELSE <<>>]
    /\ cachedLocations = [o \in Owners |-> NoSnapshot]
    /\ provider = [n \in PlaceNames |-> Answers]
    /\ env = "any"
    /\ InitRest

NextRace ==
    \E p \in Procs :
        \/ SyncStart(p, "ownerA")
        \/ SyncRead(p)
        \/ SyncLookupReturn(p)
        \/ SyncWrite(p)
        \/ SyncUpsert(p)

SpecRace == InitRace /\ [][NextRace]_vars

\* C17: nothing excludes two syncs of one owner from each other: both may read
\* the same rows and look up and write the same row; every upsert that succeeds
\* replaces the owner's snapshot by the records of the invocation issuing it,
\* whatever the other invocation published before, so that once both have
\* returned the snapshot is that of one of them, the one whose upsert came last.
C17_LastUpsertWins ==
    /\ [](\A p, q \in Procs :
            (p # q /\ SyncOk(p) /\ SyncOk(q) /\ proc[p].owner = proc[q].owner) =>
                cachedLocations[proc[p].owner].data \in {proc[p].locations, proc[q].locations})
    /\ [][\A p \in Procs :
            (proc[p].op = "sync" /\ proc[p].pc = "upsert" /\ EndsOk(p)) =>
                cachedLocations'[proc[p].owner] =
                    [present |-> TRUE, data |-> proc[p].locations]]_vars

\* both invocations read the same rows, looked up the same row with different
\* answers and wrote it back, and the snapshot is the first invocation's, not
\* the second's
C17_Witness ==
    /\ SyncOk(1) /\ SyncOk(2)
    /\ proc[1].before = proc[2].before
    /\ Len(proc[1].lookups) = 1 /\ Len(proc[2].lookups) = 1
    /\ proc[1].lookups[1].i = proc[2].lookups[1].i
    /\ Len(proc[1].batches) = 1 /\ Len(proc[2].batches) = 1
    /\ proc[1].locations # proc[2].locations
    /\ cachedLocations["ownerA"].data = proc[1].locations

----------------------------------------------------------------------------
(* syncSheetToDb on sheets whose header row is not the legacy one
   (SpecHeaders) *)

\* the six user columns, no coordinate or photo column
ShortHeader ==
    <<"Restaurant Name", "City", "Cuisine Type", "Price (JPY)", "Best For", "Google Maps">>

\* the six user columns followed by three columns of the user's own
NotesHeader == ShortHeader \o <<"Notes", "Visited", "Rating">>

HeaderRows == {LegacyHeader, ShortHeader, NotesHeader}

\* a row with the user's own values in its seventh to ninth cell
RowWithNotes ==
    <<"Ichiran", "Kyoto", "Ramen", "1000", "Lunch", "http://maps/u", "queue early", "no", "5 stars">>

HeaderTemplates == {RowNoGeo, RowWithNotes}

InitHeaders ==
    /\ profiles = [o \in Owners |-> LinkedProfile(o)]
    /\ \E h \in HeaderRows :
       \E body \in UNION {[1..k -> HeaderTemplates] : k \in 0..MaxHeaderRows} :
         locSheet = [o \in Owners |-> IF o = "ownerA" THEN <<h>> \o body ELSE <<>>]
    /\ cachedLocations = [o \in Owners |-> NoSnapshot]
    /\ provider = [n \in PlaceNames |-> Answers]
    /\ env = "any"
    /\ InitRest

NextHeaders ==
    \E p \in {1} :
        \/ SyncStart(p, "ownerA")
        \/ SyncRead(p)
        \/ SyncLookupReturn(p)
        \/ SyncWrite(p)
        \/ SyncUpsert(p)

SpecHeaders == InitHeaders /\ [][NextHeaders]_vars

\* the header row read has no cell matching "Latitude", "Longitude" or
\* "Photo Reference"
LacksGeoHeaders(header) ==
    LET m == headerMatch(header)
    IN  m.lat = -1 /\ m.lng = -1 /\ m.photo = -1

\* C18: when the header row read has no cell matching "Latitude", "Longitude" or
\* "Photo Reference", then from the read on the header row of the sheet is the
\* one read with those 3 cells appended, the lat, lng and photo roles are the 3
\* appended column indices, and every cell of a data row that was read still
\* holds what it held.
C18_HeaderRepair ==
    \A p \in Procs :
        (proc[p].op = "sync" /\ Len(proc[p].before) > 0
            /\ LacksGeoHeaders(proc[p].before[1])) =>
        LET l == proc[p]
            header == l.before[1]
        IN  /\ locSheet[l.owner][1] = header \o <<"Latitude", "Longitude", "Photo Reference">>
            /\ l.colMap.lat = Len(header)
            /\ l.colMap.lng = Len(header) + 1
            /\ l.colMap.photo = Len(header) + 2
            /\ \A r \in 2..Len(l.before) : \A c \in 1..Len(l.before[r]) :
                 locSheet[l.owner][r][c] = l.before[r][c]

----------------------------------------------------------------------------
(* Scenario A: two rows without coordinates and photo, both lookups succeed
   (Spec) *)

\* row r of the sheet read has no latitude, longitude or photo reference
LacksGeo(l, r) ==
    /\ Falsy(CellAt(l.before, r, l.colMap.lat))
    /\ Falsy(CellAt(l.before, r, l.colMap.lng))
    /\ Falsy(CellAt(l.before, r, l.colMap.photo))

\* invocation p succeeded on a header and 2 data rows that both lacked
\* coordinates and photo, with a lookup made for each and both answered
ScenarioA(p) ==
    /\ SyncOk(p)
    /\ Len(proc[p].before) = 3
    /\ LacksGeo(proc[p], 2) /\ LacksGeo(proc[p], 3)
    /\ Len(proc[p].lookups) = 2 /\ AllFound(proc[p])

\* the fields of a lookup answer that get a cell besides latitude and longitude
OptionalCells == {"photoRef", "type", "priceLevel", "summary", "googleMapsUrl"}

CellsFor(data) == 2 + Cardinality({f \in OptionalCells : ~Falsy(data[f])})

----------------------------------------------------------------------------
(* Collaborators and the access check of the locations and itinerary routes *)

\* the email the auth token of a user carries
EmailOf(userId) == IF userId = "ownerA" THEN "Ann@Trip.jp" ELSE " bob@trip.jp "

\* email.toLowerCase().trim()
normalizeEmail(email) ==
    CASE email = "Ann@Trip.jp" -> "ann@trip.jp"
      [] email = " bob@trip.jp " -> "bob@trip.jp"
      [] email = "Bob@Trip.jp" -> "bob@trip.jp"
      [] OTHER -> email

\* ilike("email", pattern) on the emails in use, none of which holds a wildcard:
\* equal without regard to case
ilike(stored, pattern) == normalizeEmail(stored) = normalizeEmail(pattern)

\* an access check that lets every authenticated user through
hasAccess_anyUser(targetOwnerId, userEmail, userId, selectOk) == TRUE

\* CollaboratorService.hasAccess: self, or a single trip_collaborators row of
\* the target owner with the normalized email; a failed select yields no data
hasAccess(targetOwnerId, userEmail, userId, selectOk) ==
    \/ targetOwnerId = userId
    \/ selectOk /\ normalizeEmail(userEmail) \in tripCollaborators[targetOwnerId]

\* inviteCollaborator: the normalized email is inserted unless already there
InviteCollaborator(ownerId, email) ==
    /\ normalizeEmail(email) \notin tripCollaborators[ownerId]
    /\ tripCollaborators' = [tripCollaborators EXCEPT ![ownerId] = @ \cup {normalizeEmail(email)}]
    /\ UNCHANGED <<profiles, locSheet, itinTab, cachedLocations, cachedItineraries, provider, env, proc>>

\* removeCollaborator: delete().eq("trip_owner_id", ownerId).ilike("email", ...)
RemoveCollaborator(ownerId, email) ==
    /\ \E e \in tripCollaborators[ownerId] : ilike(e, normalizeEmail(email))
    /\ tripCollaborators' = [tripCollaborators EXCEPT ![ownerId] =
                                {e \in @ : ~ilike(e, normalizeEmail(email))}]
    /\ UNCHANGED <<profiles, locSheet, itinTab, cachedLocations, cachedItineraries, provider, env, proc>>

(* POST /add: the row is appended to the target owner's Locations tab, then
   syncSheetToDb runs *)

\* the row built from name, city and previewData, as it reads back (trailing
\* empty cells are not returned)
addedRow(name, city, previewData) ==
    IF previewData.found
    THEN <<name, city, OrElse(previewData.type, ""), OrElse(previewData.priceLevel, ""),
           OrElse(previewData.summary, ""), OrElse(previewData.googleMapsUrl, ""),
           NumToCell(previewData.lat), NumToCell(previewData.lng),
           OrElse(previewData.photoRef, "")>>
    ELSE <<name, city>>

\* req.user stays on the request while the handler runs
withUser(locals, userId) ==
    [f \in DOMAIN locals \cup {"userId"} |-> IF f = "userId" THEN userId ELSE locals[f]]

addLocals(o, row) == [op |-> "add", pc |-> "append", owner |-> o, row |-> row, result |-> Pending]

\* if (!profile.data || !profile.data.google_refresh_token) throw
startAdd(o, row) ==
    IF ~profiles[o].exists \/ profiles[o].google_refresh_token = <<>>
    THEN [addLocals(o, row) EXCEPT !.pc = "done",
             !.result = Thrown("User not connected to Google Sheets")]
    ELSE addLocals(o, row)

\* appendRow, which fails without a spreadsheet id, then syncSheetToDb
AddAppend(p) ==
    /\ proc[p].op = "add" /\ proc[p].pc = "append"
    /\ LET l == proc[p]
       IN  \E appendOk \in CallOutcomes :
             IF appendOk /\ profiles[l.owner].spreadsheet_id # <<>>
             THEN /\ locSheet' = [locSheet EXCEPT ![l.owner] = Append(@, l.row)]
                  /\ proc' = [proc EXCEPT ![p] = withUser(startSync(l.owner), l.userId)]
             ELSE /\ proc' = [proc EXCEPT ![p] =
                        [l EXCEPT !.pc = "done", !.result = Thrown("append failed")]]
                  /\ UNCHANGED locSheet
    /\ UNCHANGED <<profiles, itinTab, cachedLocations, cachedItineraries, provider, env,
                   tripCollaborators>>

(* validateAccess in front of every locations and itinerary route *)

Operations ==
    {"read", "sync", "update", "disconnect", "add", "itinRead", "itinSync", "itinUpdate"}

\* res.status(403): the route handler is not run
Denied == [state |-> "denied", status |-> 403]

routeLocals(userId, targetOwnerId, operation) ==
    [op |-> "route", pc |-> "access", userId |-> userId, email |-> EmailOf(userId),
     targetOwnerId |-> targetOwnerId, operation |-> operation, result |-> Pending]

\* next(): the route handler is entered with req.targetOwnerId
routeHandler(operation, targetOwnerId) ==
    CASE operation = "read" -> getLocals("getLoc", targetOwnerId)
      [] operation = "sync" -> startSync(targetOwnerId)
      [] operation = "update" ->
             startUpdate(targetOwnerId, LocId(0), [NoUpdates EXCEPT !.city = "Osaka"])
      [] operation = "disconnect" -> discLocals(targetOwnerId)
      [] operation = "add" -> startAdd(targetOwnerId, addedRow("Kinkakuji", "Kyoto", NoData))
      [] operation = "itinRead" -> getLocals("getItin", targetOwnerId)
      [] operation = "itinSync" -> startSyncItinerary(targetOwnerId)
      [] operation = "itinUpdate" -> startItin(targetOwnerId, <<Item("Day 2", "loc-0", 1)>>)

\* a request of an authenticated user arrives; ownerId of the query or body, or
\* the user's own id, is the target
RouteRequest(p, userId, targetOwnerId, operation) ==
    /\ proc[p].pc = "idle"
    /\ proc' = [proc EXCEPT ![p] = routeLocals(userId, targetOwnerId, operation)]
    /\ UNCHANGED <<profiles, locSheet, itinTab, cachedLocations, cachedItineraries, provider, env,
                   tripCollaborators>>

\* validateAccess: hasAccess, then 403 or the handler
RouteAccess(p) ==
    /\ proc[p].op = "route" /\ proc[p].pc = "access"
    /\ LET l == proc[p]
       IN  \E selectOk \in CallOutcomes :
             proc' = [proc EXCEPT ![p] =
                 IF hasAccess(l.targetOwnerId, l.email, l.userId, selectOk)
                 THEN withUser(routeHandler(l.operation, l.targetOwnerId), l.userId)
                 ELSE [l EXCEPT !.pc = "done", !.result = Denied]]
    /\ UNCHANGED <<profiles, locSheet, itinTab, cachedLocations, cachedItineraries, provider, env,
                   tripCollaborators>>

InviteEmails == {"Ann@Trip.jp", "Bob@Trip.jp"}

InitRoutes ==
    /\ profiles = [o \in Owners |-> LinkedProfile(o)]
    /\ locSheet = [o \in Owners |-> SheetOf(o)]
    /\ \E tA \in TabsOf("ownerA") : \E tB \in TabsOf("ownerB") :
         itinTab = [o \in Owners |-> IF o = "ownerA" THEN tA ELSE tB]
    /\ cachedLocations =
         [o \in Owners |-> [present |-> TRUE,
                            data |-> transformRowsToLocations(SheetOf(o), LegacyIndex)]]
    /\ cachedItineraries = [o \in Owners |-> NoSnapshot]
    /\ provider = [n \in PlaceNames |-> {NoData, FullData}]
    /\ env = "any"
    /\ \E legacy \in SUBSET {"Bob@Trip.jp"} :
         tripCollaborators = [o \in Owners |-> IF o = "ownerA" THEN legacy ELSE {}]
    /\ proc = [p \in Procs |-> Idle]

NextRoutes ==
    \/ \E ownerId \in Owners : \E email \in InviteEmails :
         \/ InviteCollaborator(ownerId, email)
         \/ RemoveCollaborator(ownerId, email)
    \/ \E p \in {1} :
         \/ \E userId \in Owners : \E targetOwnerId \in Owners : \E operation \in Operations :
              RouteRequest(p, userId, targetOwnerId, operation)
         \/ RouteAccess(p)
         \/ AddAppend(p)
         \/ SyncRead(p)
         \/ SyncLookupReturn(p)
         \/ SyncWrite(p)
         \/ SyncUpsert(p)
         \/ UpdWrite(p)
         \/ UpdSelect(p)
         \/ UpdCacheUpdate(p)
         \/ SItinRead(p)
         \/ SItinHeader(p)
         \/ SItinUpsert(p)
         \/ ItinMeta(p)
         \/ ItinAddSheet(p)
         \/ ItinHeader(p)
         \/ ItinClear(p)
         \/ ItinWrite(p)
         \/ ItinUpsert(p)
         \/ GetLocSelect(p)
         \/ GetItinSelect(p)
         \/ DiscProfile(p)
         \/ DiscDelete(p)

SpecRoutes == InitRoutes /\ [][NextRoutes]_vars

\* the request of invocation p is in a route handler
InHandler(p) == proc[p].op \notin {"idle", "route"}

\* the user of a waiting request is the target owner or has the normalized
\* email in the target owner's collaborator list
MayAccess(l) ==
    \/ l.userId = l.targetOwnerId
    \/ \E e \in tripCollaborators[l.targetOwnerId] :
         e = normalizeEmail(l.email)

\* C21: a request for a locations or itinerary operation enters its handler
\* only if the authenticated user is the target owner or the user's normalized
\* email is in the target owner's collaborator list at the access check, and
\* then the handler runs for that target owner; a request of any other user
\* ends in 403; the access check changes no profile, spreadsheet or cache, and
\* these change for an owner only in a step of a handler admitted for that
\* owner.
C21_AccessControl ==
    [][\A p \in {1} :
         /\ (proc[p].op = "route" /\ proc'[p] # proc[p]) =>
              /\ UNCHANGED <<profiles, locSheet, itinTab, cachedLocations, cachedItineraries>>
              /\ InHandler(p)' =>
                   /\ MayAccess(proc[p])
                   /\ proc'[p].owner = proc[p].targetOwnerId
                   /\ proc'[p].userId = proc[p].userId
              /\ ~MayAccess(proc[p]) => proc'[p].result = Denied
              /\ ~InHandler(p)' => proc'[p].pc = "done" /\ proc'[p].result = Denied
         /\ \A b \in Owners :
              StoresOf(b)' # StoresOf(b) => InHandler(p) /\ proc[p].owner = b
      ]_vars

\* a collaborator's request has changed the owner's spreadsheet and cache, after
\* the invitation that admitted it
C21_Witness ==
    /\ InHandler(1) /\ proc[1].pc = "done" /\ proc[1].result.state = "ok"
    /\ proc[1].userId = "ownerB" /\ proc[1].owner = "ownerA"
    /\ locSheet["ownerA"] # SheetOf("ownerA")
    /\ cachedLocations["ownerA"].data # transformRowsToLocations(SheetOf("ownerA"), LegacyIndex)

----------------------------------------------------------------------------
(* The executor of syncSheetToDb *)

\* invocation p is a sync that has read its rows
SyncPlanned(p) == proc[p].op = "sync" /\ proc[p].pc \in {"await", "write", "upsert"}

\* C22: within one invocation at most 3 lookups are called; the clock is read
\* only at the head of an iteration, so a lookup in flight always returns and
\* its answer is applied however long it took, and the invocation halts on the
\* time budget only there, with more than 6000 ms elapsed and an item left;
\* once more than 6000 ms have elapsed no lookup is in flight and none is
\* started again in that invocation.
C22_ExecutorHalt ==
    [][\A p \in Procs :
         /\ (SyncPlanned(p) /\ proc[p].pc = "await" /\ proc'[p] # proc[p]) =>
              LET l == proc[p]
                  m == proc'[p]
              IN  /\ l.elapsed <= 6000 /\ ~l.timedOut
                  /\ Len(l.lookups) < 3
                  /\ Len(m.lookups) = Len(l.lookups) + 1
                  /\ m.lookups[Len(m.lookups)].i = l.itemsToFetch[Len(m.lookups)]
                  /\ m.lookups[Len(m.lookups)].data.found =>
                       /\ m.updatedCount = l.updatedCount + 1
                       /\ m.locations[m.lookups[Len(m.lookups)].i + 1].lat =
                            m.lookups[Len(m.lookups)].data.lat
                  /\ m.timedOut <=> (m.elapsed > 6000 /\ Len(m.lookups) < Len(m.itemsToFetch))
                  /\ m.pc = "await" <=> (m.elapsed <= 6000 /\ Len(m.lookups) < Len(m.itemsToFetch))
         /\ (SyncPlanned(p) /\ proc[p].pc # "await" /\ proc'[p].op = "sync") =>
              /\ proc'[p].pc # "await"
              /\ proc'[p].lookups = proc[p].lookups
              /\ proc'[p].timedOut = proc[p].timedOut
      ]_vars

\* a lookup that ran past the budget was applied and published, and the
\* invocation halted before the next item
C22_Witness ==
    \E p \in Procs :
        LET l == proc[p]
        IN  /\ SyncOk(p) /\ l.timedOut /\ l.elapsed > 6000
            /\ Len(l.lookups) \in 1..2 /\ Len(l.lookups) < Len(l.itemsToFetch)
            /\ l.lookups[Len(l.lookups)].data.found
            /\ cachedLocations[l.owner].data[l.lookups[Len(l.lookups)].i + 1].lat # 0

----------------------------------------------------------------------------
(* Column role resolution on short header rows of every order (SpecResolve) *)

MaxHeaderCells == 3

HeaderCells == {"Restaurant Name", "Name", "City", " City ", "Latitude", "Notes"}

ResolveHeaders == UNION {[1..n -> HeaderCells] : n \in 0..MaxHeaderCells}

InitResolve ==
    /\ profiles = [o \in Owners |-> LinkedProfile(o)]
    /\ \E h \in ResolveHeaders : \E body \in {<<>>, <<RowNoGeo>>, <<RowComplete, RowNoGeo>>} :
         locSheet = [o \in Owners |-> IF o = "ownerA" THEN <<h>> \o body ELSE <<>>]
    /\ cachedLocations = [o \in Owners |-> NoSnapshot]
    /\ provider = [n \in PlaceNames \cup {"Kyoto", "Ramen"} |-> {NoData, FullData}]
    /\ env = "calm"
    /\ InitRest

SpecResolve == InitResolve /\ [][NextHeaders]_vars

\* the roles and the header texts the resolver is said to accept for each
AcceptedAliases ==
    [name  |-> {"restaurant name", "name"},
     city  |-> {"city"},
     type  |-> {"cuisine type"},
     price |-> {"price (jpy)"},
     desc  |-> {"best for"},
     url   |-> {"google maps"},
     lat   |-> {"latitude"},
     lng   |-> {"longitude"},
     photo |-> {"photo reference"}]

\* the texts the code searches for
SearchedTexts == [AcceptedAliases EXCEPT !.name = {"restaurant name"}]

\* index of the first header cell whose lowercased, trimmed text is one of the
\* aliases, else the legacy position
ResolvedTo(header, aliases, legacy) ==
    LET hits == {i \in 1..Len(header) : toLowerTrim(header[i]) \in aliases}
    IN  IF hits = {} THEN legacy
        ELSE (CHOOSE i \in hits : \A j \in hits : i <= j) - 1

\* every role of a sync that has read its rows is resolved by the given aliases
ResolvedBy(aliases) ==
    \A p \in Procs : SyncPlanned(p) =>
        LET l == proc[p]
        IN  \A r \in DOMAIN l.colMap :
              /\ l.colMap[r] = ResolvedTo(l.before[1], aliases[r], LegacyIndex[r])
              /\ l.colMap[r] >= 0

\* C23: every role resolves to the index of the first header cell whose
\* lowercased, trimmed text is one of its accepted aliases ("restaurant name" or
\* "name" for the name role), and otherwise to its legacy position; every role
\* has a non-negative index.
C23_RoleResolution == ResolvedBy(AcceptedAliases)

\* the resolution the code performs: one text per role
ResolvedBySearchedTexts == ResolvedBy(SearchedTexts)

----------------------------------------------------------------------------
(* The enrichment selector on rows with one gap each, in both versions of
   syncSheetToDb (SpecSelect) *)

MaxSelectRows == 2

\* RowComplete with one cell changed
RowWith(col, cell) == [RowComplete EXCEPT ![col + 1] = cell]

GapRows ==
    {RowComplete, RowNoGeo, RowBare,
     RowWith(0, ""), RowWith(2, ""), RowWith(2, "Spot"), RowWith(3, ""), RowWith(3, "-"),
     RowWith(4, ""), RowWith(5, ""), RowWith(5, "#"), RowWith(6, "0"), RowWith(7, ""),
     RowWith(8, "")}

InitSelect ==
    /\ profiles = [o \in Owners |-> LinkedProfile(o)]
    /\ \E body \in UNION {[1..k -> GapRows] : k \in 1..MaxSelectRows} :
         locSheet = [o \in Owners |-> IF o = "ownerA" THEN <<LegacyHeader>> \o body ELSE <<>>]
    /\ cachedLocations = [o \in Owners |-> NoSnapshot]
    /\ provider = [n \in PlaceNames |-> {FullData}]
    /\ env = "calm"
    /\ InitRest

NextSelect ==
    \E p \in {1} :
        \/ SyncStart(p, "ownerA")
        \/ SyncRead(p)
        \/ SyncLookupReturn(p)
        \/ SyncWrite(p)
        \/ SyncUpsert(p)
        \/ FanOutStart(p, "ownerA")
        \/ FanOutRead(p)
        \/ FanOutLookupReturn(p)
        \/ FanOutWrite(p)
        \/ FanOutUpsert(p)

SpecSelect == InitSelect /\ [][NextSelect]_vars

\* the record has a name and one of the gaps that call for a lookup
Qualifies(loc, rawRow, colMap) ==
    /\ loc.name # "Unknown"
    /\ \/ loc.lat = 0 \/ loc.lng = 0
       \/ getVal(rawRow, colMap.photo) \in {"", UNDEF}
       \/ loc.type = "Spot"
       \/ loc.priceJpy = "-"
       \/ loc.description = ""
       \/ loc.googleMapsUrl = "#"

\* zero-based indices of the qualifying records, in row order
QualifyingItems(locations, rows, colMap) ==
    LET Q(i) == Qualifies(locations[i + 1], rows[i + 2], colMap)
    IN  SelectSeq([k \in 1..Len(locations) |-> k - 1], Q)

\* a sync of the later version has planned: what it selected and looks up
SelectionOk(p) ==
    SyncPlanned(p) =>
        LET l == proc[p]
        IN  /\ l.selected = QualifyingItems(l.pre, l.before, l.colMap)
            /\ \A j \in 1..Len(l.lookups) : \E n \in 1..Len(l.selected) :
                 l.lookups[j].i = l.selected[n]

\* a sync of the service file's version has selected and not yet merged
FanOutSelectionOk(p) ==
    (/\ proc[p].op = "syncFanOut"
     /\ proc[p].pc = "awaitAll" \/ (proc[p].pc = "upsert" /\ proc[p].itemsToFetch = <<>>)) =>
        LET l == proc[p]
        IN  l.itemsToFetch = QualifyingItems(l.locations, locSheet[l.owner], l.colMap)

\* C24: a record is selected for lookup if and only if its name is not
\* "Unknown" and lat or lng is zero, the raw row has no photo reference, type is
\* "Spot", price is "-", description is empty or url is "#"; only selected
\* records are looked up.
C24_SelectionIff == \A p \in Procs : SelectionOk(p) /\ FanOutSelectionOk(p)

----------------------------------------------------------------------------
(* Successive syncs after an enrichment *)

\* the place of record i answers with every enrichable field
FullAnswer(l, i) == \A d \in provider[l.pre[i + 1].name] :
    /\ d.found /\ d.lat # 0 /\ d.lng # 0
    /\ \A f \in {"photoRef", "type", "priceLevel", "summary", "googleMapsUrl"} :
         d[f] \notin {"", UNDEF}

\* C25: with no edits from outside, a record that an earlier sync enriched from
\* a lookup answer supplying coordinates, photo reference, type, price, summary
\* and maps url is not selected, and so not looked up, by a later sync.
C25_NoRefresh ==
    [][\A p \in Procs :
         (proc[p].op = "sync" /\ proc[p].pc = "read" /\ SyncPlanned(p)') =>
             \A i \in proc[p].everLooked :
                 FullAnswer(proc'[p], i) =>
                     /\ \A n \in 1..Len(proc'[p].selected) : proc'[p].selected[n] # i
                     /\ \A n \in 1..Len(proc'[p].itemsToFetch) : proc'[p].itemsToFetch[n] # i
      ]_vars

\* a header row whose coordinate columns stand where the legacy positions of
\* type and price are
CoordsThirdHeader == <<"Restaurant Name", "City", "Latitude", "Longitude">>

MaxCollideRows == 2

InitCollide ==
    /\ profiles = [o \in Owners |-> LinkedProfile(o)]
    /\ \E body \in UNION {[1..k -> {<<"Ichiran", "Kyoto">>, RowBare}] : k \in 1..MaxCollideRows} :
         locSheet = [o \in Owners |-> IF o = "ownerA" THEN <<CoordsThirdHeader>> \o body ELSE <<>>]
    /\ cachedLocations = [o \in Owners |-> NoSnapshot]
    /\ \E f \in [PlaceNames -> Answers] : provider = [n \in PlaceNames |-> {f[n]}]
    /\ env = "calm"
    /\ InitRest

SpecCollide == InitCollide /\ [][NextRepeat]_vars

----------------------------------------------------------------------------
(* The row transformers *)

\* C26: the record transformed from the data row at zero-based position i has
\* the id "loc-" + i, the ids of one snapshot are pairwise distinct, and a later
\* sync of the same row sequence gives every position the id it had in the
\* snapshot of the sync before.
C26_PositionalIds ==
    \A p \in Procs : SyncPlanned(p) =>
        LET l == proc[p]
        IN  /\ Len(l.pre) = Len(l.before) - 1
            /\ \A k \in 1..Len(l.pre) : l.pre[k].id = <<"loc-", k - 1>>
            /\ \A j, k \in 1..Len(l.pre) : l.pre[j].id = l.pre[k].id => j = k
            /\ l.prev.known =>
                 /\ Len(l.prev.data) = Len(l.pre)
                 /\ \A k \in 1..Len(l.pre) : l.pre[k].id = l.prev.data[k].id

\* a second sync has transformed four rows, after a first that enriched some
C26_Witness ==
    \E p \in Procs :
        /\ SyncPlanned(p) /\ proc[p].prev.known /\ proc[p].prev.selected > 0
        /\ Len(proc[p].pre) = 4
        /\ proc[p].pre # proc[p].prev.data

(* The transformers on cells that are no numbers (SpecCoerce) *)

MaxCoerceRows == 2

\* cells of a numeric column: a number, nothing, a text
CoerceRows == {RowComplete, RowWith(6, "north"), RowWith(7, "east"), RowWith(6, "")}

CoerceItemRows == {<<"Day 2", "loc-0", "1">>, <<"Day 2", "loc-1", "first">>, <<"Day 2", "loc-1">>}

InitCoerce ==
    /\ profiles = [o \in Owners |-> LinkedProfile(o)]
    /\ \E body \in UNION {[1..k -> CoerceRows] : k \in 1..MaxCoerceRows} :
         locSheet = [o \in Owners |-> IF o = "ownerA" THEN <<LegacyHeader>> \o body ELSE <<>>]
    /\ \E rows \in {<<>>} \cup {<<ItineraryHeader>> \o body :
                          body \in UNION {[1..k -> CoerceItemRows] : k \in 1..MaxCoerceRows}} :
         itinTab = [o \in Owners |-> IF o = "ownerA"
                       THEN [exists |-> TRUE, rows |-> rows]
                       ELSE NoTab]
    /\ cachedLocations = [o \in Owners |-> NoSnapshot]
    /\ cachedItineraries = [o \in Owners |-> NoSnapshot]
    /\ provider = [n \in PlaceNames |-> {FullData}]
    /\ env = "calm"
    /\ proc = [p \in Procs |-> Idle]
    /\ tripCollaborators = [o \in Owners |-> {}]

NextCoerce ==
    \E p \in {1} :
        \/ SyncStart(p, "ownerA")
        \/ SyncRead(p)
        \/ SyncLookupReturn(p)
        \/ SyncWrite(p)
        \/ SyncUpsert(p)
        \/ SItinStart(p, "ownerA")
        \/ SItinRead(p)
        \/ SItinHeader(p)
        \/ SItinUpsert(p)

SpecCoerce == InitCoerce /\ [][NextCoerce]_vars

\* a cell holding a text that is no number
Malformed(cell) == cell \notin {"", UNDEF} /\ cell \notin NumericCells

\* the transformed coordinates of a sync that has read its rows
CoordsCoerced(p) ==
    SyncPlanned(p) =>
        LET l == proc[p]
        IN  \A k \in 1..Len(l.pre) : \A f \in {"lat", "lng"} :
              /\ l.pre[k][f] \in Nat
              /\ Malformed(getVal(l.before[k + 1], l.colMap[f])) => l.pre[k][f] = 0

\* the transformed order of an itinerary sync that has read its rows, every
\* one of which has a location id
OrderCoerced(p) ==
    (proc[p].op = "syncItin" /\ proc[p].read /\ proc[p].pc \in {"upsert", "done"}) =>
        LET l == proc[p]
        IN  \A k \in 1..Len(l.itineraryData) :
              /\ l.itineraryData[k].order \in Nat
              /\ Malformed(getVal(l.rows[k + 1], 2)) => l.itineraryData[k].order = 0

\* C27: a cell of a numeric column (lat and lng of a location, order of an
\* itinerary item) that cannot be parsed as a number yields 0 in the transformed
\* record, and no transformed numeric field is a non-number.
C27_NumericCoercion == \A p \in Procs : CoordsCoerced(p) /\ OrderCoerced(p)

----------------------------------------------------------------------------
(* Photo cells that hold a URL of the user's (SpecPhoto) *)

MaxPhotoRows == 2

\* a row with the user's own picture and no type yet
RowOwnPhoto == [RowWith(8, "http://img/u.jpg") EXCEPT ![3] = ""]

\* a row where the user pasted a Google photo URL, and no type yet
RowPastedPhoto ==
    [RowWith(8, "https://maps.googleapis.com/maps/api/place/photo?photo_reference=refU")
        EXCEPT ![3] = ""]

PhotoRows == {RowComplete, RowNoGeo, RowWith(8, "http://img/u.jpg"), RowOwnPhoto, RowPastedPhoto}

InitPhoto ==
    /\ profiles = [o \in Owners |-> LinkedProfile(o)]
    /\ \E body \in UNION {[1..k -> PhotoRows] : k \in 1..MaxPhotoRows} :
         locSheet = [o \in Owners |-> IF o = "ownerA" THEN <<LegacyHeader>> \o body ELSE <<>>]
    /\ cachedLocations = [o \in Owners |-> NoSnapshot]
    /\ \E f \in [PlaceNames -> Answers] : provider = [n \in PlaceNames |-> {f[n]}]
    /\ env = "calm"
    /\ InitRest

SpecPhoto == InitPhoto /\ [][NextRepeat]_vars

\* an absolute URL
AbsoluteUrl(s) == s \in HttpCells \cup GooglePhotoUrls

\* C28: when a row's photo cell holds an absolute URL, the record's photoUrl is
\* that cell verbatim after transformation and in the snapshot the sync
\* publishes, and the snapshot of the next sync still has it; a sync replaces
\* the photoUrl of a record only when it was blank or derived from a photo
\* reference.
C28_UserPhotoOverride ==
    \A p \in Procs : SyncOk(p) =>
        LET l == proc[p]
            d == cachedLocations[l.owner].data
        IN  \A k \in 1..Len(l.pre) :
              LET cell == getVal(l.before[k + 1], l.colMap.photo)
              IN  /\ AbsoluteUrl(cell) => l.pre[k].photoUrl = cell /\ d[k].photoUrl = cell
                  /\ d[k].photoUrl # l.pre[k].photoUrl =>
                       \/ l.pre[k].photoUrl \in {"", UNDEF}
                       \/ ~AbsoluteUrl(cell)
                  /\ (l.prev.known /\ l.prev.data[k].photoUrl \in HttpCells) =>
                       d[k].photoUrl = l.prev.data[k].photoUrl

\* the same, for the record transformed and published and the cell's own
\* sync only, and for URLs that do not name maps.googleapis.com
PhotoKeptWithinOneSync ==
    \A p \in Procs : SyncOk(p) =>
        LET l == proc[p]
            d == cachedLocations[l.owner].data
        IN  \A k \in 1..Len(l.pre) :
              LET cell == getVal(l.before[k + 1], l.colMap.photo)
              IN  /\ AbsoluteUrl(cell) => l.pre[k].photoUrl = cell
                  /\ cell \in HttpCells => d[k].photoUrl = cell

----------------------------------------------------------------------------
(* The write-back of syncSheetToDb *)

\* positions in lookups of the lookups that answered
Hits(l) == {j \in 1..Len(l.lookups) : l.lookups[j].data.found}

\* the entries of a batch addressed to spreadsheet row r
EntriesOfRow(batch, r) == {n \in 1..Len(batch) : batch[n].range[2] = r}

\* C29: a sync invocation makes at most one batched write call; the owner's
\* Locations tab changes only in the step of that call; the call carries the
\* cell writes of every lookup of the invocation that answered (latitude,
\* longitude and one cell per further field supplied) and no others; and an
\* invocation none of whose lookups answered returns without a write call.
C29_BatchedWriteBack ==
    [][\A p \in Procs : (proc[p].op = "sync" /\ proc'[p].op = "sync") =>
         LET l == proc[p]
             m == proc'[p]
         IN  /\ Len(m.batches) <= 1
             /\ locSheet'[l.owner] # locSheet[l.owner] =>
                  l.pc = "write" /\ l.batches = <<>> /\ Len(m.batches) = 1
             /\ (l.pc = "write" /\ m.batches # l.batches) =>
                  /\ Hits(l) # {}
                  /\ \A j \in Hits(l) :
                       Cardinality(EntriesOfRow(m.batches[1], l.lookups[j].i + 2))
                         = CellsFor(l.lookups[j].data)
                  /\ \A n \in 1..Len(m.batches[1]) : \E j \in Hits(l) :
                       m.batches[1][n].range[2] = l.lookups[j].i + 2
                  /\ locSheet'[l.owner] = batchUpdateValues(locSheet[l.owner], m.batches[1])
             /\ (l.pc # "done" /\ m.pc = "done" /\ m.result.state = "ok" /\ m.before # <<>>) =>
                  (Len(m.batches) = 1 <=> Hits(m) # {})
             /\ (l.pc = "write") => Hits(l) # {}
      ]_vars

\* one write carried the cells of two answered lookups while a third lookup
\* of the invocation had answered nothing
C29_Witness ==
    \E p \in Procs :
        /\ SyncOk(p) /\ Len(proc[p].batches) = 1
        /\ Cardinality(Hits(proc[p])) = 2 /\ Len(proc[p].lookups) = 3
        /\ Len(proc[p].batches[1]) >= 4

\* the field of a lookup answer written to the column of each role
AnswerField ==
    [lat |-> "lat", lng |-> "lng", photo |-> "photoRef", type |-> "type",
     price |-> "priceLevel", desc |-> "summary", url |-> "googleMapsUrl"]

\* what the write-back holds for role f of an answer: the number as text, the
\* text, or nothing when the answer did not supply it
WrittenValue(data, f) ==
    IF f \in {"lat", "lng"} THEN ToString(data[f])
    ELSE IF data[AnswerField[f]] \in {"", UNDEF} THEN UNDEF
    ELSE data[AnswerField[f]]

\* C30: every cell the write-back of a sync writes is, for some answered lookup
\* of record i and some role f, the one cell in the column the role resolved to
\* and in spreadsheet row i + 2, holding the answer's value for f; that is the
\* cell the transformer reads f of record i from; every supplied field of every
\* answered lookup has its cell in the batch; every role has a resolved
\* (non-negative) column by then; and the rows of records that got no answer in
\* this invocation are as they were read.
C30_WriteBackAddressing ==
    \A p \in Procs : (SyncPlanned(p) /\ proc[p].batches # <<>>) =>
        LET l == proc[p]
            batch == l.batches[1]
            rowsHit == {l.lookups[j].i + 2 : j \in Hits(l)}
            Addressed(n, j, f) ==
                /\ batch[n].range = <<Letters[l.colMap[f] + 1], l.lookups[j].i + 2>>
                /\ batch[n].value = WrittenValue(l.lookups[j].data, f)
        IN  /\ \A f \in DOMAIN l.colMap : l.colMap[f] >= 0
            /\ \A n \in 1..Len(batch) : \E j \in Hits(l) : \E f \in DOMAIN AnswerField :
                 Addressed(n, j, f)
            /\ \A j \in Hits(l) : \A f \in DOMAIN AnswerField :
                 WrittenValue(l.lookups[j].data, f) # UNDEF =>
                     /\ \E n \in 1..Len(batch) : Addressed(n, j, f)
                     /\ \E g \in DOMAIN AnswerField :
                          /\ l.colMap[g] = l.colMap[f]
                          /\ getVal(locSheet[l.owner][l.lookups[j].i + 2], l.colMap[f])
                               = WrittenValue(l.lookups[j].data, g)
            /\ \A r \in 1..Len(l.before) : r \notin rowsHit => locSheet[l.owner][r] = l.before[r]
            /\ Len(locSheet[l.owner]) = Len(l.before)

\* the latitude of the second data row was written to a column other than the
\* legacy one, and the first data row was left alone
C30_Witness ==
    \E p \in Procs :
        /\ SyncOk(p) /\ proc[p].batches # <<>>
        /\ proc[p].colMap.lat \in {1, 2}
        /\ Len(proc[p].before) = 3 /\ Hits(proc[p]) # {}
        /\ \A j \in Hits(proc[p]) : proc[p].lookups[j].i = 1
        /\ getVal(locSheet[proc[p].owner][3], proc[p].colMap.lat) \in {"34", "Restaurant", "YY"}

----------------------------------------------------------------------------
(* Sequences of syncItinerary and updateItineraryInSheet for one owner
   (SpecItinSeq) *)

MaxSeqItems == 2

\* items the update route accepts: locationId is any string
SeqItems == {Item("Day 2", "loc-0", 1), Item("Day 10", "loc-1", 0), Item("Day 2", "", 0)}

SeqLists ==
    {s \in UNION {[1..k -> SeqItems] : k \in 0..MaxSeqItems} :
        \A i, j \in 1..Len(s) : i # j => s[i] # s[j]}

\* the tab before the first operation: absent, empty, or holding rows in the
\* order the user typed them
SeqTabs ==
    {NoTab,
     [exists |-> TRUE, rows |-> <<>>],
     [exists |-> TRUE, rows |-> <<ItineraryHeader, <<"Day 2", "loc-0", "1">>,
                                  <<"Day 10", "loc-1", "0">>>>]}

\* the response has been sent; the next request may come
Return(p) ==
    /\ proc[p].pc = "done"
    /\ proc' = [proc EXCEPT ![p] = Idle]
    /\ UNCHANGED <<profiles, locSheet, itinTab, cachedLocations, cachedItineraries, provider, env,
                   tripCollaborators>>

InitItinSeq ==
    /\ profiles = [o \in Owners |-> LinkedProfile(o)]
    /\ locSheet = [o \in Owners |-> <<>>]
    /\ \E t \in SeqTabs : itinTab = [o \in Owners |-> IF o = "ownerA" THEN t ELSE NoTab]
    /\ cachedLocations = [o \in Owners |-> NoSnapshot]
    /\ cachedItineraries = [o \in Owners |-> NoSnapshot]
    /\ provider = [n \in PlaceNames |-> Answers]
    /\ env = "calm"
    /\ proc = [p \in Procs |-> Idle]
    /\ tripCollaborators = [o \in Owners |-> {}]

NextItinSeq ==
    \E p \in {1} :
        \/ \E itineraryItems \in SeqLists : ItinStart(p, "ownerA", itineraryItems)
        \/ ItinMeta(p)
        \/ ItinAddSheet(p)
        \/ ItinHeader(p)
        \/ ItinClear(p)
        \/ ItinWrite(p)
        \/ ItinUpsert(p)
        \/ SItinStart(p, "ownerA")
        \/ SItinRead(p)
        \/ SItinHeader(p)
        \/ SItinUpsert(p)
        \/ Return(p)

SpecItinSeq == InitItinSeq /\ [][NextItinSeq]_vars

\* every item has a location id
AllLocated(list) == \A i \in DOMAIN list : list[i].locationId \notin {"", UNDEF}

\* ordered by day and, within a day, by order
OrderedByDayAndOrder(list) ==
    \A i, j \in DOMAIN list :
        i < j => \/ DayRank[list[i].day] < DayRank[list[j].day]
                 \/ list[i].day = list[j].day /\ list[i].order <= list[j].order

\* C31: after any sequence of syncItinerary and updateItineraryInSheet
\* operations every item of the cached itinerary has a non-empty locationId and
\* the cached list is ordered by (day, order).
C31_ItinerarySnapshot ==
    \A o \in Owners : cachedItineraries[o].present =>
        /\ AllLocated(cachedItineraries[o].data)
        /\ OrderedByDayAndOrder(cachedItineraries[o].data)

----------------------------------------------------------------------------
(* Creation of the Itinerary tab *)

\* the owner's Itinerary tab exists and its first row is the fixed header
HasItineraryHeader(o) ==
    /\ itinTab[o].exists
    /\ Len(itinTab[o].rows) >= 1
    /\ itinTab[o].rows[1] = <<"Day", "Location ID", "Order", "Notes">>

\* a rewrite that found no tab returned success
RewriteCreatedTab(p) ==
    /\ proc[p].op = "updItin" /\ proc[p].pc = "done" /\ proc[p].result.state = "ok"
    /\ proc[p].path \in {"created", "raced"}

\* an itinerary sync whose read gave no rows returned success
SyncFoundNoRows(p) ==
    /\ proc[p].op = "syncItin" /\ proc[p].pc = "done" /\ proc[p].result.state = "ok"
    /\ proc[p].read /\ proc[p].rows = <<>>

\* C32: in syncItinerary and in updateItineraryInSheet an invocation that finds
\* the Itinerary tab absent returns success only with the tab created and its
\* header [Day, Location ID, Order, Notes] written: a creation failure other
\* than "already exists" ends the invocation in an error.
C32_TabCreation ==
    \A p \in Procs : (RewriteCreatedTab(p) \/ SyncFoundNoRows(p)) => HasItineraryHeader(proc[p].owner)

----------------------------------------------------------------------------
(* Cache against spreadsheet *)

\* C33: when syncSheetToDb completes successfully with no concurrent
\* operation, the cached record list equals the transformation of the
\* spreadsheet's rows as they stand after the write-back, field by field.
C33_CacheAgreesWithSheet ==
    \A p \in Procs : (SyncOk(p) /\ proc[p].before # <<>>) =>
        LET l == proc[p]
            d == cachedLocations[l.owner].data
            t == transformRowsToLocations(locSheet[l.owner], l.colMap)
        IN  /\ Len(d) = Len(t)
            /\ \A k \in 1..Len(d) : \A f \in DOMAIN d[k] : d[k][f] = t[k][f]

----------------------------------------------------------------------------
(* The resolved column map *)

\* C34: after column resolution (header match, legacy fallback, repair) no two
\* roles have the same column index, whatever the header row.
C34_ColumnMapInjective ==
    \A p \in Procs : SyncPlanned(p) =>
        \A f, g \in DOMAIN proc[p].colMap :
            proc[p].colMap[f] = proc[p].colMap[g] => f = g

----------------------------------------------------------------------------
(* Two concurrent updateLocationInSheet calls of one owner (SpecUpdRace) *)

MaxUpdRaceRows == 2

\* what each of the two requests asks for: different records
RaceRequests(p) ==
    IF p = 1
    THEN {<<LocId(0), [NoUpdates EXCEPT !.city = "Osaka"]>>,
          <<LocId(0), [NoUpdates EXCEPT !.name = "Sushi Dai", !.city = "Tokyo"]>>}
    ELSE {<<LocId(1), [NoUpdates EXCEPT !.type = "Sushi", !.priceJpy = "3000"]>>,
          <<LocId(1), [NoUpdates EXCEPT !.city = "Osaka"]>>}

InitUpdRace ==
    /\ profiles = [o \in Owners |-> LinkedProfile(o)]
    /\ \E body \in [1..MaxUpdRaceRows -> UpdateTemplates] :
         /\ locSheet = [o \in Owners |-> IF o = "ownerA" THEN <<LegacyHeader>> \o body ELSE <<>>]
         /\ cachedLocations =
              [o \in Owners |-> IF o = "ownerA"
                  THEN [present |-> TRUE,
                        data |-> transformRowsToLocations(<<LegacyHeader>> \o body, LegacyIndex)]
                  ELSE NoSnapshot]
    /\ provider = [n \in PlaceNames |-> Answers]
    /\ env = "calm"
    /\ InitRest

NextUpdRace ==
    \E p \in Procs :
        \/ \E r \in RaceRequests(p) : UpdStart(p, "ownerA", r[1], r[2])
        \/ UpdWrite(p)
        \/ UpdSelect(p)
        \/ UpdCacheUpdate(p)

SpecUpdRace == InitUpdRace /\ [][NextUpdRace]_vars

\* the cached record with the id of invocation p's request has every field the
\* request carried
ChangeCached(p) ==
    LET l == proc[p]
        d == cachedLocations[l.owner].data
    IN  \A k \in 1..Len(d) : d[k].id = l.locationId =>
            \A f \in DOMAIN l.updates : l.updates[f] # UNDEF => d[k][f] = l.updates[f]

\* C35: when two updateLocationInSheet calls of one owner on different records
\* have both completed, the cached snapshot holds the changes of both.
C35_NoLostUpdate ==
    (UpdOk(1) /\ UpdOk(2) /\ proc[1].owner = proc[2].owner
        /\ proc[1].locationId # proc[2].locationId) =>
    (ChangeCached(1) /\ ChangeCached(2))

----------------------------------------------------------------------------
(* updateLocationInSheet followed by syncSheetToDb (SpecUpdSync) *)

MaxUpdSyncRows == 1

\* the legacy header with its first two columns exchanged, and a row under it
CityFirstHeader ==
    <<"City", "Restaurant Name", "Cuisine Type", "Price (JPY)", "Best For",
      "Google Maps", "Latitude", "Longitude", "Photo Reference">>

RowCityFirst == <<"Kyoto", "Ichiran", "Ramen", "1000", "Lunch", "http://maps/u", "35", "139", "refU">>

UpdSyncSheets ==
    {<<LegacyHeader>> \o body : body \in [1..MaxUpdSyncRows -> {RowComplete, RowNoGeo}]}
    \cup {<<CityFirstHeader, RowCityFirst>>}

\* invocation 1 updates a record of ownerA; once it has returned, invocation 2
\* runs the owner's next sync, and nothing else edits the sheet
InitUpdSync ==
    /\ profiles = [o \in Owners |-> LinkedProfile(o)]
    /\ \E s \in UpdSyncSheets :
         locSheet = [o \in Owners |-> IF o = "ownerA" THEN s ELSE <<>>]
    /\ \E c \in {NoSnapshot, [present |-> TRUE, data |-> StaleLocations]} :
         cachedLocations = [o \in Owners |-> IF o = "ownerA" THEN c ELSE NoSnapshot]
    /\ provider = [n \in PlaceNames \cup {"Sushi Dai", "Tokyo", "Osaka", "Kyoto"} |-> Answers]
    /\ env = "calm"
    /\ InitRest

NextUpdSync ==
    \/ \E locationId \in {LocId(0), LocId(1)} : \E updates \in UpdateInputs :
         UpdStart(1, "ownerA", locationId, updates)
    \/ UpdWrite(1)
    \/ UpdSelect(1)
    \/ UpdCacheUpdate(1)
    \/ (proc[1].op = "updLoc" /\ proc[1].pc = "done" /\ SyncStart(2, "ownerA"))
    \/ SyncRead(2)
    \/ SyncLookupReturn(2)
    \/ SyncWrite(2)
    \/ SyncUpsert(2)

SpecUpdSync == InitUpdSync /\ [][NextUpdSync]_vars

\* the update of invocation 1 and the sync of invocation 2 that followed it
\* have both succeeded, and the record updated is in the snapshot
UpdatedThenSynced ==
    /\ UpdOk(1) /\ SyncOk(2)
    /\ \E k \in 1..Len(cachedLocations["ownerA"].data) :
         cachedLocations["ownerA"].data[k].id = proc[1].locationId

\* C36: after a successful updateLocationInSheet(owner, id, {f: v}) and a
\* successful following syncSheetToDb, the cached record with that id has f
\* equal to v, for every field of the request and every header.
C36_UpdateSyncRoundTrip ==
    UpdatedThenSynced =>
        LET d == cachedLocations["ownerA"].data
        IN  \A k \in 1..Len(d) : d[k].id = proc[1].locationId =>
                \A f \in DOMAIN proc[1].updates :
                    proc[1].updates[f] # UNDEF => d[k][f] = proc[1].updates[f]

\* the same for truthy values under the legacy header only
RoundTripLegacyTruthy ==
    (UpdatedThenSynced /\ locSheet["ownerA"][1] = LegacyHeader) =>
        LET d == cachedLocations["ownerA"].data
        IN  \A k \in 1..Len(d) : d[k].id = proc[1].locationId =>
                \A f \in DOMAIN proc[1].updates :
                    ~Falsy(proc[1].updates[f]) => d[k][f] = proc[1].updates[f]

\* the same for a changed name under the header with City first
RoundTripNameAnyHeader ==
    (UpdatedThenSynced /\ ~Falsy(proc[1].updates.name)) =>
        LET d == cachedLocations["ownerA"].data
        IN  \A k \in 1..Len(d) : d[k].id = proc[1].locationId =>
                d[k].name = proc[1].updates.name

----------------------------------------------------------------------------
(* updateLocationInSheet on ids whose number is below zero (SpecUpdIds) *)

\* "loc--1": parseInt("-1") is -1, a number, so the id is not rejected
NegativeId == LocId(-1)

RequestIds == {NegativeId, LocId(0), LocId(1), ForeignId}

InitUpdIds ==
    /\ profiles = [o \in Owners |-> LinkedProfile(o)]
    /\ \E s \in SheetsUpTo(MaxUpdateRows, UpdateTemplates) \ {<<>>} :
         /\ locSheet = [o \in Owners |-> IF o = "ownerA" THEN s ELSE <<>>]
         /\ \E c \in SnapshotsOf(s) :
              cachedLocations = [o \in Owners |-> IF o = "ownerA" THEN c ELSE NoSnapshot]
    /\ provider = [n \in PlaceNames |-> Answers]
    /\ env = "any"
    /\ InitRest

NextUpdIds ==
    \E p \in {1} :
        \/ \E locationId \in RequestIds : \E updates \in UpdateInputs :
             UpdStart(p, "ownerA", locationId, updates)
        \/ UpdWrite(p)
        \/ UpdSelect(p)
        \/ UpdCacheUpdate(p)

SpecUpdIds == InitUpdIds /\ [][NextUpdIds]_vars

\* the invocation was not ended by "Invalid Location ID"
IdAccepted(p) ==
    /\ proc[p].op = "updLoc"
    /\ ~(proc[p].result.state = "error" /\ proc[p].result = Thrown("Invalid Location ID"))

\* C37: for every locationId that updateLocationInSheet accepts, every cell it
\* writes lies in spreadsheet row 2 or below, and the header row stays as it was.
C37_HeaderUntouched ==
    \A p \in Procs : IdAccepted(p) =>
        /\ \A i \in 1..Len(proc[p].changes) : proc[p].changes[i].range[2] >= 2
        /\ locSheet[proc[p].owner][1] = LegacyHeader

\* the same for ids whose number is not negative
HeaderUntouchedFromZero ==
    \A p \in Procs : (IdAccepted(p) /\ proc[p].locationId[2] >= 0) =>
        /\ \A i \in 1..Len(proc[p].changes) : proc[p].changes[i].range[2] >= 2
        /\ locSheet[proc[p].owner][1] = LegacyHeader

----------------------------------------------------------------------------
(* Order of the write-back and the cache upsert in syncSheetToDb (Spec) *)

\* the invocation was ended by the failure of the batched write-back
WriteBackFailed(p) ==
    SyncDone(p) /\ proc[p].result = Thrown("batchUpdate failed")

\* the invocation is at the cache upsert or has gone through it
AtOrPastUpsert(p) ==
    /\ proc[p].op = "sync"
    /\ \/ proc[p].pc = "upsert"
       \/ SyncOk(p)
       \/ SyncDone(p) /\ proc[p].result = Thrown("upsertError")

\* C38: in syncSheetToDb the cache upsert is attempted only after the batched
\* write-back of the invocation's updates has succeeded; if the write-back
\* fails the invocation ends in an error and the owner's cached snapshot is
\* what it was before the invocation.
C38_WriteBackBeforePublish ==
    /\ (AtOrPastUpsert(1) /\ Len(proc[1].updates) > 0) =>
           /\ Len(proc[1].batches) = 1
           /\ proc[1].batches[1] = batchData(proc[1].updates, proc[1].colMap)
    /\ cachedLocations["ownerA"].data # StaleLocations =>
           (SyncOk(1) /\ (Len(proc[1].updates) > 0 => Len(proc[1].batches) = 1))
    /\ WriteBackFailed(1) =>
           /\ proc[1].result.state = "error"
           /\ cachedLocations["ownerA"] = [present |-> TRUE, data |-> StaleLocations]
           /\ proc[1].batches = <<>>

C38_Witness ==
    /\ WriteBackFailed(1)
    /\ Len(proc[1].updates) > 0
    /\ cachedLocations["ownerA"].data = StaleLocations

----------------------------------------------------------------------------
(* What disconnectSheet leaves in the caches (SpecHandlers) *)

DisconnectDone(p) ==
    proc[p].op = "disconnect" /\ proc[p].pc = "done" /\ proc[p].result.state = "ok"

\* C40: after disconnectSheet(owner) completes, no cached snapshot of either
\* kind remains for the owner, so getLocationsFromDb and getItineraryFromDb both
\* return the empty list.
C40_DisconnectClearsCaches ==
    \A p \in Procs : DisconnectDone(p) =>
        /\ ~cachedLocations[proc[p].owner].present
        /\ ~cachedItineraries[proc[p].owner].present
        /\ cachedData(cachedLocations, proc[p].owner) = <<>>
        /\ cachedData(cachedItineraries, proc[p].owner) = <<>>

----------------------------------------------------------------------------
(* updateItineraryInSheet followed by syncItinerary (SpecItinRound) *)

MaxRoundItems == 2

\* an item the route's schema accepts with an empty day label (day: z.string())
UnscheduledItem == Item("", "loc-0", 0)

RoundItems == {Item("Day 2", "loc-0", 1), Item("Day 10", "loc-1", 0), Item("Day 2", "loc-1", 2)}

\* every item has a locationId; the item without a day label comes alone
RoundLists ==
    {s \in UNION {[1..k -> RoundItems] : k \in 0..MaxRoundItems} :
        \A i, j \in 1..Len(s) : i # j => s[i] # s[j]}
    \cup {<<UnscheduledItem>>}

\* invocation 1 rewrites the itinerary of ownerA; once it has returned,
\* invocation 2 runs the owner's syncItinerary, and nothing else edits the tab
InitItinRound ==
    /\ profiles = [o \in Owners |-> LinkedProfile(o)]
    /\ locSheet = [o \in Owners |-> <<>>]
    /\ \E t \in SeqTabs : itinTab = [o \in Owners |-> IF o = "ownerA" THEN t ELSE NoTab]
    /\ cachedLocations = [o \in Owners |-> NoSnapshot]
    /\ cachedItineraries = [o \in Owners |-> NoSnapshot]
    /\ provider = [n \in PlaceNames |-> Answers]
    /\ env = "calm"
    /\ proc = [p \in Procs |-> Idle]
    /\ tripCollaborators = [o \in Owners |-> {}]

NextItinRound ==
    \/ \E itineraryItems \in RoundLists : ItinStart(1, "ownerA", itineraryItems)
    \/ ItinMeta(1)
    \/ ItinAddSheet(1)
    \/ ItinHeader(1)
    \/ ItinClear(1)
    \/ ItinWrite(1)
    \/ ItinUpsert(1)
    \/ (proc[1].op = "updItin" /\ proc[1].pc = "done" /\ SItinStart(2, "ownerA"))
    \/ SItinRead(2)
    \/ SItinHeader(2)
    \/ SItinUpsert(2)

SpecItinRound == InitItinRound /\ [][NextItinRound]_vars

\* the rewrite of invocation 1 and the sync of invocation 2 that followed it
\* have both succeeded
RewrittenThenSynced ==
    /\ proc[1].op = "updItin" /\ proc[1].pc = "done" /\ proc[1].result.state = "ok"
    /\ proc[2].op = "syncItin" /\ proc[2].pc = "done" /\ proc[2].result.state = "ok"

\* C39: for every item list S whose items all have a non-empty locationId,
\* updateItineraryInSheet(owner, S) followed by syncItinerary(owner) leaves the
\* cached itinerary equal to sort(S), item for item.
C39_RewriteSyncRoundTrip ==
    (RewrittenThenSynced /\ AllLocated(proc[1].itineraryItems)) =>
        cachedItineraries["ownerA"].data = sortItems(proc[1].itineraryItems)

\* the same for lists whose items all have a day label as well
RoundTripWithDayLabels ==
    (RewrittenThenSynced /\ AllLocated(proc[1].itineraryItems)
        /\ \A i \in 1..Len(proc[1].itineraryItems) : proc[1].itineraryItems[i].day # "") =>
        cachedItineraries["ownerA"].data = sortItems(proc[1].itineraryItems)

====
